---- MODULE Spec2Model ----
(***************************************************************************)
(* terraform-provider-standesamt: the name and validate provider           *)
(* functions (argument parsing, configuration resolution, name assembly,   *)
(* validation), the hash generator of internal/random, and the location    *)
(* maps of internal/schema: the alias overlay and the cached fetch from    *)
(* the Azure API, alone and side by side; the read of the locations data   *)
(* source; and the Configure method of the provider.                       *)
(*                                                                         *)
(* Text is modelled as a sequence of one-character strings, so that        *)
(* trimming, quoting, folding and joining are computed character by        *)
(* character.  Resource-type keys, location identifiers, conventions and   *)
(* precedence tokens are whole TLA+ strings.                               *)
(***************************************************************************)
EXTENDS Integers, Sequences, FiniteSets, TLC

VARIABLES
    req,           \* the arguments of the function call under way
    nameResp,      \* function.RunResponse of NameFunction.Run
    validateResp,  \* function.RunResponse of ValidateFunction.Run
    seededRand,    \* package variable random.seededRand
    hashHistory,   \* the Hash calls made so far, with what each returned
    threads,       \* the concurrent Hash invocations and their positions
    overlay,       \* a location map, an alias table and the results of ApplyAliases
    files,         \* the cache file of each cache key
    now,           \* time.Now()
    remote,        \* the map the Azure API has for the subscription
    fetchLog,      \* the latest two Fetch calls, with what each did
    fetchers,      \* the Fetch calls running side by side and their positions
    served,        \* the maps the Azure API has returned so far, by cache key
    provider       \* StandesamtProvider.config and the latest Configure calls

locationVars == <<overlay, files, now, remote, fetchLog, fetchers, served, provider>>

vars == <<req, nameResp, validateResp, seededRand, hashHistory, threads, locationVars>>

\* no location map is in use
LocationsIdle ==
    /\ overlay = [set |-> FALSE]
    /\ files = <<>>
    /\ now = 0
    /\ remote = <<>>
    /\ fetchLog = <<>>
    /\ fetchers = <<>>
    /\ served = <<>>
    /\ provider = <<>>

----------------------------------------------------------------------------
(* Bounds of the model *)

\* longest raw name fragment
MaxNameLen == 3
\* longest hash requested from the generator
MaxHashLen == 2
\* seeds range over 0..MaxSeed; MinSeed is the negative seed tried
MaxSeed == 1
\* number of sequential Hash calls followed
MaxCalls == 3

MinSeed == 0 - 1

----------------------------------------------------------------------------
(* Text *)

Quote == "\""
Backslash == "\\"

UpperCase == <<"A","B","C","D","E","F","G","H","I","J","K","L","M",
               "N","O","P","Q","R","S","T","U","V","W","X","Y","Z">>

\* const charset of package random
charset == <<"a","b","c","d","e","f","g","h","i","j","k","l","m",
             "n","o","p","q","r","s","t","u","v","w","x","y","z">>

Digits == {"0","1","2","3","4","5","6","7","8","9"}

Range(s) == {s[i] : i \in DOMAIN s}

\* strings.ToLower on one character
ToLowerChar(c) ==
    IF \E i \in DOMAIN UpperCase : UpperCase[i] = c
    THEN charset[CHOOSE i \in DOMAIN UpperCase : UpperCase[i] = c]
    ELSE c

\* strings.ToLower
StringsToLower(s) == [i \in DOMAIN s |-> ToLowerChar(s[i])]

RECURSIVE TrimLeft(_, _)
TrimLeft(s, c) ==
    IF s /= <<>> /\ Head(s) = c THEN TrimLeft(Tail(s), c) ELSE s

RECURSIVE TrimRight(_, _)
TrimRight(s, c) ==
    IF s /= <<>> /\ s[Len(s)] = c
    THEN TrimRight(SubSeq(s, 1, Len(s) - 1), c) ELSE s

\* strings.Trim(s, cutset) for a one-character cutset
StringsTrim(s, c) == TrimRight(TrimLeft(s, c), c)

\* strings.Contains(s, sub)
StringsContains(s, sub) ==
    \E i \in 1..(Len(s) - Len(sub) + 1) : SubSeq(s, i, i + Len(sub) - 1) = sub

RECURSIVE StringsJoin(_, _)
\* strings.Join(elems, sep)
StringsJoin(elems, sep) ==
    IF elems = <<>> THEN <<>>
    ELSE IF Len(elems) = 1 THEN elems[1]
    ELSE elems[1] \o sep \o StringsJoin(Tail(elems), sep)

RECURSIVE EscapeQuoted(_)
\* the body of fmt's %q: a quote or a backslash gets a backslash before it
EscapeQuoted(s) ==
    IF s = <<>> THEN <<>>
    ELSE (IF Head(s) \in {Quote, Backslash}
          THEN <<Backslash, Head(s)>> ELSE <<Head(s)>>) \o EscapeQuoted(Tail(s))

\* types.String: null, or a value
StringNull == [null |-> TRUE, v |-> <<>>]
StringValue(s) == [null |-> FALSE, v |-> s]
ValueString(x) == IF x.null THEN <<>> ELSE x.v

\* basetypes.StringValue.String(): "<null>" or the value as %q prints it
StringString(x) ==
    IF x.null THEN <<"<", "n", "u", "l", "l", ">">>
    ELSE <<Quote>> \o EscapeQuoted(x.v) \o <<Quote>>

\* tools.GetBaseString
GetBaseString(x) == IF x.null THEN <<>> ELSE StringsTrim(x.v, Quote)

\* toLower of name_function.go
toLower(x) == IF x.null THEN x ELSE StringValue(StringsToLower(x.v))

----------------------------------------------------------------------------
(* package random.  rand.New(rand.NewSource(seed)) is the standard         *)
(* library's generator: a state set from the seed alone and advanced by    *)
(* each draw.  It is modelled by a multiplicative congruential generator   *)
(* (x' = 75 x mod 65537); only the dependence of the n-th draw on the seed *)
(* and on n is used.                                                       *)

NilRand == [nil |-> TRUE, x |-> 0]

\* rand.New(rand.NewSource(seed)): the seed is reduced, and 0 replaced
RandNew(seed) ==
    LET r == seed % 65536
    IN  [nil |-> FALSE, x |-> IF r = 0 THEN 8948 ELSE r]

\* (*rand.Rand).Intn(n): the generator after the draw, and the number drawn
RandIntn(r, n) ==
    LET x == (75 * r.x) % 65537
    IN  [rand |-> [nil |-> FALSE, x |-> x], val |-> x % n]

RECURSIVE StringWithCharsetFrom(_, _, _)
\* the loop of StringWithCharset from the given generator: the bytes still
\* to fill, drawn one after the other
StringWithCharsetFrom(r, length, cs) ==
    IF length = 0 THEN [rand |-> r, out |-> <<>>]
    ELSE LET d == RandIntn(r, Len(cs))
             rest == StringWithCharsetFrom(d.rand, length - 1, cs)
         IN  [rand |-> rest.rand, out |-> <<cs[d.val + 1]>> \o rest.out]

\* a StringWithCharset that fills one byte more than asked
StringWithCharsetOneMore(rand, length, cs) == StringWithCharsetFrom(rand, length + 1, cs)

\* StringWithCharset: reads the package variable seededRand
StringWithCharset(rand, length, cs) == StringWithCharsetFrom(rand, length, cs)

\* a Hash that keeps the generator it finds and seeds only the first time
HashKeepsGenerator(rand, length, seed) ==
    StringWithCharset(IF rand.nil THEN RandNew(seed) ELSE rand, length, charset)

\* Hash: sets seededRand to a new generator, then StringWithCharset.
\* `rand` is seededRand as the call finds it; the result carries seededRand
\* as the call leaves it.
Hash(rand, length, seed) == StringWithCharset(RandNew(seed), length, charset)

Seeds == MinSeed..MaxSeed
HashLengths == 0..MaxHashLen

----------------------------------------------------------------------------
(* Values of the plugin framework *)

\* types.String holding a key, an identifier or a convention
AtomNull == [null |-> TRUE, v |-> ""]
AtomValue(a) == [null |-> FALSE, v |-> a]

\* an attribute of the settings object: null (or absent), or a value
AttrNull(zero) == [null |-> TRUE, v |-> zero]
AttrValue(x) == [null |-> FALSE, v |-> x]

\* function.FuncError: the literal text of the message and what is
\* formatted into it
FuncError(text, n, m, name, key, avail) ==
    [text |-> text, n |-> n, m |-> m, name |-> name, key |-> key, avail |-> avail]

\* a schema-not-found error that lists no key
ErrSchemaNotFoundNoTypes(nameType, availableTypes) ==
    FuncError("resource type '%s' not found in schema. Available resource types: %s",
              0, 0, <<>>, nameType, <<>>)

ErrSchemaNotFound(nameType, availableTypes) ==
    FuncError("resource type '%s' not found in schema. Available resource types: %s",
              0, 0, <<>>, nameType, availableTypes)
ErrSettingsNotObject == FuncError("settings must be an object", 0, 0, <<>>, "", <<>>)
ErrLocationNotFound ==
    FuncError("location not found in provided locations map", 0, 0, <<>>, "", <<>>)
ErrDoubleHyphens(name) ==
    FuncError("Invalid name: '%s' contains double hyphens", 0, 0, name, "", <<>>)
ErrRegex == FuncError("Name does not match regex", 0, 0, <<>>, "", <<>>)
ErrMaximum(n, m) ==
    FuncError("Name has %d characters, but maximum is set to %d", n, m, <<>>, "", <<>>)
ErrMinimum(n, m) ==
    FuncError("Name has %d characters, but minimum is set to %d", n, m, <<>>, "", <<>>)

\* schema.DefaultNamePrecedence
DefaultNamePrecedence ==
    <<"abbreviation", "prefixes", "name", "location", "environment", "hash", "suffixes">>

\* the zero value of schema.BuildNameSettingsModel
ZeroSettings ==
    [Convention |-> "", Location |-> "", Environment |-> <<>>, Separator |-> <<>>,
     HashLength |-> 0, RandomSeed |-> 0, Lowercase |-> FALSE,
     Prefixes |-> <<>>, Suffixes |-> <<>>, NamePrecedence |-> <<>>]

\* the zero value of buildNameResultModel
ZeroResult ==
    [Name |-> StringNull, Convention |-> AtomNull, Environment |-> StringNull,
     Separator |-> StringNull, HashLength |-> 0, RandomSeed |-> 0,
     Prefixes |-> <<>>, Suffixes |-> <<>>, NamePrecedence |-> <<>>,
     Location |-> StringNull]

----------------------------------------------------------------------------
(* name_builder.go: argument parsing *)

\* parseSettingsFromDynamic: a null attribute leaves the field at its zero
\* value; a value that is no object is an error
parseSettingsFromDynamic(settingsDynamic) ==
    IF settingsDynamic.kind = "null" THEN [err |-> FALSE, settings |-> ZeroSettings]
    ELSE IF settingsDynamic.kind /= "object" THEN [err |-> TRUE, settings |-> ZeroSettings]
    ELSE LET a == settingsDynamic.attrs
             get(x, zero) == IF x.null THEN zero ELSE x.v
         IN  [err |-> FALSE,
              settings |->
                [Convention |-> get(a.convention, ""),
                 Location |-> get(a.location, ""),
                 Environment |-> get(a.environment, <<>>),
                 Separator |-> get(a.separator, <<>>),
                 HashLength |-> get(a.hash_length, 0),
                 RandomSeed |-> get(a.random_seed, 0),
                 Lowercase |-> get(a.lowercase, FALSE),
                 Prefixes |-> get(a.prefixes, <<>>),
                 Suffixes |-> get(a.suffixes, <<>>),
                 NamePrecedence |-> get(a.name_precedence, <<>>)]]

\* parseArguments.  availableTypes is the order in which the range over the
\* schema map yields its keys.
parseArguments(r, availableTypes) ==
    LET schemaFound == r.name_type \in DOMAIN r.schema
        parsed == parseSettingsFromDynamic(r.settings)
        none == [err |-> <<>>, ok |-> FALSE, typeSchema |-> <<>>,
                 buildNameSettings |-> ZeroSettings]
    IN  IF ~schemaFound
        THEN [none EXCEPT !.err = <<ErrSchemaNotFound(r.name_type, availableTypes)>>]
        ELSE IF r.settings.kind /= "null" /\ parsed.err
        THEN [none EXCEPT !.err = <<ErrSettingsNotObject>>]
        ELSE [err |-> <<>>, ok |-> TRUE, typeSchema |-> r.schema[r.name_type],
              buildNameSettings |-> parsed.settings]

----------------------------------------------------------------------------
(* name_builder.go: nameBuilder *)

\* buildNameResultModel.SetConvention
SetConvention(override, model) ==
    IF override.Convention /= "" THEN AtomValue(override.Convention)
    ELSE model.configuration.convention

\* the location with the configuration's asked before the settings'
resolveLocationBaseFirst(settings, model) ==
    LET location ==
            IF ~model.configuration.location.null THEN model.configuration.location.v
            ELSE settings.Location
    IN  IF location /= ""
        THEN IF location \in DOMAIN model.locations
             THEN [Location |-> model.locations[location], notFound |-> FALSE]
             ELSE [Location |-> StringNull, notFound |-> TRUE]
        ELSE [Location |-> StringNull, notFound |-> FALSE]

\* nameBuilder.resolveLocation: the Location of the result, and whether the
\* location-not-found error is added
resolveLocation(settings, model) ==
    LET location ==
            IF settings.Location /= "" THEN settings.Location
            ELSE IF ~model.configuration.location.null
                 THEN model.configuration.location.v
            ELSE ""
    IN  IF location /= ""
        THEN IF location \in DOMAIN model.locations
             THEN [Location |-> model.locations[location], notFound |-> FALSE]
             ELSE [Location |-> StringNull, notFound |-> TRUE]
        ELSE [Location |-> StringNull, notFound |-> FALSE]

\* the environment with the gate asked before the override
resolveEnvironmentGateFirst(settings, model, typeSchema) ==
    IF ~typeSchema.configuration.use_environment THEN StringValue(<<>>)
    ELSE IF settings.Environment /= <<>> THEN StringValue(settings.Environment)
    ELSE model.configuration.environment

\* nameBuilder.resolveEnvironment
resolveEnvironment(settings, model, typeSchema) ==
    IF settings.Environment /= <<>> THEN StringValue(settings.Environment)
    ELSE IF typeSchema.configuration.use_environment
         THEN model.configuration.environment
    ELSE StringValue(<<>>)

\* nameBuilder.resolveSeparator
resolveSeparator(settings, model, typeSchema) ==
    IF settings.Separator /= <<>> THEN StringValue(settings.Separator)
    ELSE IF typeSchema.configuration.use_separator
         THEN model.configuration.separator
    ELSE StringValue(<<>>)

\* a resolution that appends the schema's list to the settings'
resolveNamePrecedenceMerged(settings, typeSchema) ==
    IF Len(settings.NamePrecedence) + Len(typeSchema.configuration.name_precedence) > 0
    THEN settings.NamePrecedence \o typeSchema.configuration.name_precedence
    ELSE DefaultNamePrecedence

\* nameBuilder.resolveNamePrecedence
resolveNamePrecedence(settings, typeSchema) ==
    IF Len(settings.NamePrecedence) > 0 THEN settings.NamePrecedence
    ELSE IF Len(typeSchema.configuration.name_precedence) > 0
         THEN typeSchema.configuration.name_precedence
    ELSE DefaultNamePrecedence

\* nameBuilder.resolvePrefixes
resolvePrefixes(settings, model) ==
    IF Len(settings.Prefixes) = 0 THEN model.configuration.prefixes
    ELSE settings.Prefixes

\* nameBuilder.resolveSuffixes
resolveSuffixes(settings, model) ==
    IF Len(settings.Suffixes) = 0 THEN model.configuration.suffixes
    ELSE settings.Suffixes

\* the hash length without the configuration's own
resolveHashLengthSkipsBase(settings, model, typeSchema) ==
    IF settings.HashLength > 0 THEN settings.HashLength
    ELSE typeSchema.configuration.hash_length

\* nameBuilder.resolveHashLength
resolveHashLength(settings, model, typeSchema) ==
    IF settings.HashLength > 0 THEN settings.HashLength
    ELSE IF model.configuration.hash_length > 0 THEN model.configuration.hash_length
    ELSE typeSchema.configuration.hash_length

\* a seed resolution that takes every seed of the settings but zero
resolveRandomSeedNonZero(settings, model) ==
    IF settings.RandomSeed /= 0 THEN settings.RandomSeed
    ELSE model.configuration.random_seed

\* nameBuilder.resolveRandomSeed
resolveRandomSeed(settings, model) ==
    IF settings.RandomSeed > 0 THEN settings.RandomSeed
    ELSE model.configuration.random_seed

\* an element of a types.List of strings as buildNameComponents reads it:
\* strings.Trim(element.String(), "\"")
ListElement(e) == StringsTrim(StringString(StringValue(e)), Quote)

RECURSIVE ComponentsFrom(_, _, _, _, _)
\* the loop of buildNameComponents from token i on: the components appended,
\* and seededRand as the Hash calls leave it
ComponentsFrom(i, result, typeSchema, name, rand) ==
    IF i > Len(result.NamePrecedence) THEN [content |-> <<>>, rand |-> rand]
    ELSE
      LET c == result.NamePrecedence[i]
          h == Hash(rand, result.HashLength, result.RandomSeed)
          useHash == c = "hash" /\ result.HashLength > 0
          here ==
            CASE c = "abbreviation" ->
                   IF Len(StringString(typeSchema.abbreviation)) > 0
                   THEN <<GetBaseString(typeSchema.abbreviation)>> ELSE <<>>
              [] c = "prefixes" ->
                   [j \in DOMAIN result.Prefixes |-> ListElement(result.Prefixes[j])]
              [] c = "suffixes" ->
                   [j \in DOMAIN result.Suffixes |-> ListElement(result.Suffixes[j])]
              [] c = "name" ->
                   IF Len(StringString(name)) > 0
                   THEN <<GetBaseString(name)>> ELSE <<>>
              [] c = "environment" ->
                   IF Len(ValueString(result.Environment)) > 0
                   THEN <<GetBaseString(result.Environment)>> ELSE <<>>
              [] c = "location" ->
                   IF Len(ValueString(result.Location)) > 0
                   THEN <<GetBaseString(result.Location)>> ELSE <<>>
              [] useHash -> <<h.out>>
              [] OTHER -> <<>>
          rest == ComponentsFrom(i + 1, result, typeSchema, name,
                                 IF useHash THEN h.rand ELSE rand)
      IN  [content |-> here \o rest.content, rand |-> rest.rand]

\* nameBuilder.buildNameComponents: the Name of the result
buildNameComponents(result, typeSchema, name, rand) ==
    LET c == ComponentsFrom(1, result, typeSchema, name, rand)
    IN  [Name |-> StringValue(StringsJoin(c.content, ValueString(result.Separator))),
         rand |-> c.rand]

\* a fold that looks at the schema's flag alone
applyLowercaseSchemaOnly(resultName, settings, model, typeSchema) ==
    IF typeSchema.configuration.use_lower_case THEN toLower(resultName) ELSE resultName

\* a fold that needs all three flags
applyLowercaseAllFlags(resultName, settings, model, typeSchema) ==
    IF typeSchema.configuration.use_lower_case /\ model.configuration.lowercase
       /\ settings.Lowercase
    THEN toLower(resultName) ELSE resultName

\* nameBuilder.applyLowercase
applyLowercase(resultName, settings, model, typeSchema) ==
    IF typeSchema.configuration.use_lower_case \/ model.configuration.lowercase
       \/ settings.Lowercase
    THEN toLower(resultName) ELSE resultName

\* nameBuilder.buildName: the result model, whether resolveLocation added its
\* error, and seededRand as the call leaves it
buildName(settings, model, typeSchema, name, rand) ==
    LET convention == SetConvention(settings, model)
        loc == resolveLocation(settings, model)
        resolved ==
            [ZeroResult EXCEPT
                !.Convention = convention,
                !.Location = loc.Location,
                !.Environment = resolveEnvironment(settings, model, typeSchema),
                !.Separator = resolveSeparator(settings, model, typeSchema),
                !.NamePrecedence = resolveNamePrecedence(settings, typeSchema),
                !.Prefixes = resolvePrefixes(settings, model),
                !.Suffixes = resolveSuffixes(settings, model),
                !.HashLength = resolveHashLength(settings, model, typeSchema),
                !.RandomSeed = resolveRandomSeed(settings, model)]
        built == buildNameComponents(resolved, typeSchema, name, rand)
    IN  IF convention.v = "default"
        THEN [result |-> [resolved EXCEPT !.Name =
                             applyLowercase(built.Name, settings, model, typeSchema)],
              locationNotFound |-> loc.notFound, rand |-> built.rand]
        ELSE [result |-> [ZeroResult EXCEPT
                             !.Convention = convention,
                             !.Name = applyLowercase(name, settings, model, typeSchema)],
              locationNotFound |-> FALSE, rand |-> rand]

----------------------------------------------------------------------------
(* name_builder.go: validation *)

LowerLetters == Range(charset)
UpperLetters == Range(UpperCase)

\* the validation_regex of azurerm_resource_group and that of
\* azurerm_storage_account in the test configurations
PatternResourceGroup == "^[a-zA-Z0-9-._()]{0,89}[a-zA-Z0-9-_()]$"
PatternStorageAccount == "^[a-z0-9]{3,24}$"

\* regexp.MustCompile(pattern), for the patterns above: ^[body]{lo,hi}[last]$
\* as [body, last, lo, hi]
RegexpMustCompile(pattern) ==
    IF pattern = PatternResourceGroup
    THEN [body |-> LowerLetters \cup UpperLetters \cup Digits \cup {"-", ".", "_", "(", ")"},
          last |-> LowerLetters \cup UpperLetters \cup Digits \cup {"-", "_", "(", ")"},
          lo |-> 0, hi |-> 89]
    ELSE [body |-> LowerLetters \cup Digits, last |-> LowerLetters \cup Digits,
          lo |-> 2, hi |-> 23]

\* (*regexp.Regexp).MatchString(name)
MatchString(re, name) ==
    /\ Len(name) >= 1
    /\ Len(name) - 1 >= re.lo
    /\ Len(name) - 1 <= re.hi
    /\ \A i \in 1..(Len(name) - 1) : name[i] \in re.body
    /\ name[Len(name)] \in re.last

\* a validation that stops at the first failing check
validateNameShortCircuit(name, schema) ==
    LET regexValid == MatchString(RegexpMustCompile(schema.validation_regex), name)
        lengthValid == ~(Len(name) > schema.max_length \/ Len(name) < schema.min_length)
    IN  [Name |-> name,
         NameLength |-> Len(name),
         ValidationRegex |-> schema.validation_regex,
         MaxLength |-> schema.max_length,
         MinLength |-> schema.min_length,
         DenyDoubleHyphens |-> schema.configuration.deny_double_hyphens,
         RegexValid |-> regexValid,
         LengthValid |-> ~regexValid \/ lengthValid,
         DoubleHyphensFound |-> regexValid /\ lengthValid
                                   /\ StringsContains(name, <<"-", "-">>)]

\* a validation whose length check knows the maximum only
validateNameMaxOnly(name, schema) ==
    [Name |-> name,
     NameLength |-> Len(name),
     ValidationRegex |-> schema.validation_regex,
     MaxLength |-> schema.max_length,
     MinLength |-> schema.min_length,
     DenyDoubleHyphens |-> schema.configuration.deny_double_hyphens,
     RegexValid |-> MatchString(RegexpMustCompile(schema.validation_regex), name),
     LengthValid |-> ~(Len(name) > schema.max_length),
     DoubleHyphensFound |-> StringsContains(name, <<"-", "-">>)]

\* a validation whose length bounds are exclusive
validateNameExclusiveBounds(name, schema) ==
    [Name |-> name,
     NameLength |-> Len(name),
     ValidationRegex |-> schema.validation_regex,
     MaxLength |-> schema.max_length,
     MinLength |-> schema.min_length,
     DenyDoubleHyphens |-> schema.configuration.deny_double_hyphens,
     RegexValid |-> MatchString(RegexpMustCompile(schema.validation_regex), name),
     LengthValid |-> ~(Len(name) >= schema.max_length \/ Len(name) <= schema.min_length),
     DoubleHyphensFound |-> StringsContains(name, <<"-", "-">>)]

\* validateName
validateName(name, schema) ==
    [Name |-> name,
     NameLength |-> Len(name),
     ValidationRegex |-> schema.validation_regex,
     MaxLength |-> schema.max_length,
     MinLength |-> schema.min_length,
     DenyDoubleHyphens |-> schema.configuration.deny_double_hyphens,
     RegexValid |-> MatchString(RegexpMustCompile(schema.validation_regex), name),
     LengthValid |-> ~(Len(name) > schema.max_length \/ Len(name) < schema.min_length),
     DoubleHyphensFound |-> StringsContains(name, <<"-", "-">>)]

----------------------------------------------------------------------------
(* The provider functions *)

\* the zero value of validationResult
ZeroValidation ==
    [Name |-> <<>>, NameLength |-> 0, ValidationRegex |-> "", MaxLength |-> 0,
     MinLength |-> 0, DenyDoubleHyphens |-> FALSE, RegexValid |-> FALSE,
     LengthValid |-> FALSE, DoubleHyphensFound |-> FALSE]

\* a response before anything is set in it: err is resp.Error, returned
\* tells whether resp.Result was set and result is what it was set to;
\* assembled, resultModel and checked, validation record how far Run got
EmptyResponse ==
    [done |-> TRUE, err |-> <<>>, returned |-> FALSE, result |-> StringNull,
     assembled |-> FALSE, resultModel |-> ZeroResult,
     checked |-> FALSE, validation |-> ZeroValidation]

\* the validation errors without the double-hyphen check
NameErrorsNoDoubleHyphens(validation, resultNameStr) ==
    IF ~validation.RegexValid THEN <<ErrRegex>>
    ELSE IF validation.NameLength > validation.MaxLength
         THEN <<ErrMaximum(validation.NameLength, validation.MaxLength)>>
    ELSE IF validation.NameLength < validation.MinLength
         THEN <<ErrMinimum(validation.NameLength, validation.MinLength)>>
    ELSE <<>>

\* the validation errors of NameFunction.Run, in the order it adds them
NameErrors(validation, resultNameStr) ==
    (IF validation.DenyDoubleHyphens /\ validation.DoubleHyphensFound
     THEN <<ErrDoubleHyphens(resultNameStr)>> ELSE <<>>)
    \o
    (IF ~validation.RegexValid THEN <<ErrRegex>>
     ELSE IF ~validation.LengthValid
          THEN IF validation.NameLength > validation.MaxLength
               THEN <<ErrMaximum(validation.NameLength, validation.MaxLength)>>
               ELSE IF validation.NameLength < validation.MinLength
                    THEN <<ErrMinimum(validation.NameLength, validation.MinLength)>>
                    ELSE <<>>
          ELSE <<>>)

\* NameFunction.Run: the response, and seededRand as the call leaves it
NameRun(r, availableTypes, rand) ==
    LET p == parseArguments(r, availableTypes)
        b == buildName(p.buildNameSettings, r, p.typeSchema, r.name, rand)
        resultNameStr == GetBaseString(b.result.Name)
        validation == validateName(resultNameStr, p.typeSchema)
    IN  IF ~p.ok
        THEN [resp |-> [EmptyResponse EXCEPT !.err = p.err], rand |-> rand]
        ELSE IF b.locationNotFound
        THEN [resp |-> [EmptyResponse EXCEPT !.err = <<ErrLocationNotFound>>,
                            !.assembled = TRUE, !.resultModel = b.result],
              rand |-> b.rand]
        ELSE [resp |-> [EmptyResponse EXCEPT
                            !.err = NameErrors(validation, resultNameStr),
                            !.returned = TRUE, !.result = b.result.Name,
                            !.assembled = TRUE, !.resultModel = b.result,
                            !.checked = TRUE, !.validation = validation],
              rand |-> b.rand]

\* the object ValidateFunction.Run returns
ValidationObject(validation, nameType) ==
    [regex |-> [valid |-> validation.RegexValid, match |-> validation.ValidationRegex],
     length |-> [valid |-> validation.LengthValid, is |-> validation.NameLength,
                 max |-> validation.MaxLength, min |-> validation.MinLength],
     type |-> nameType,
     name |-> validation.Name,
     double_hyphens_denied |-> validation.DenyDoubleHyphens,
     double_hyphens_found |-> validation.DoubleHyphensFound]

\* ValidateFunction.Run: the response, and seededRand as the call leaves it
ValidateRun(r, availableTypes, rand) ==
    LET p == parseArguments(r, availableTypes)
        b == buildName(p.buildNameSettings, r, p.typeSchema, r.name, rand)
        resultNameStr == GetBaseString(b.result.Name)
        validation == validateName(resultNameStr, p.typeSchema)
    IN  IF ~p.ok
        THEN [resp |-> [EmptyResponse EXCEPT !.err = p.err], rand |-> rand]
        ELSE IF b.locationNotFound
        THEN [resp |-> [EmptyResponse EXCEPT !.err = <<ErrLocationNotFound>>,
                            !.assembled = TRUE, !.resultModel = b.result],
              rand |-> b.rand]
        ELSE [resp |-> [EmptyResponse EXCEPT
                            !.returned = TRUE,
                            !.result = ValidationObject(validation, r.name_type),
                            !.assembled = TRUE, !.resultModel = b.result,
                            !.checked = TRUE, !.validation = validation],
              rand |-> b.rand]

\* every order in which a range over a map with these keys may yield them
KeyOrders(keys) ==
    {o \in [1..Cardinality(keys) -> keys] : \A i, j \in DOMAIN o : i /= j => o[i] /= o[j]}

\* provider::standesamt::name(...) on the arguments req
RunName ==
    /\ req.set
    /\ ~nameResp.done
    /\ \E availableTypes \in KeyOrders(DOMAIN req.schema) :
          LET run == NameRun(req, availableTypes, seededRand)
          IN  /\ nameResp' = run.resp
              /\ seededRand' = run.rand
    /\ UNCHANGED <<req, validateResp, hashHistory, threads, locationVars>>

\* provider::standesamt::validate(...) on the arguments req
RunValidate ==
    /\ req.set
    /\ ~validateResp.done
    /\ \E availableTypes \in KeyOrders(DOMAIN req.schema) :
          LET run == ValidateRun(req, availableTypes, seededRand)
          IN  /\ validateResp' = run.resp
              /\ seededRand' = run.rand
    /\ UNCHANGED <<req, nameResp, hashHistory, threads, locationVars>>

NextFunctions == RunName \/ RunValidate

----------------------------------------------------------------------------
(* The arguments the functions are called with *)

\* the characters raw name fragments are made of
Alphabet == {"a", "A", "-", "#"}

RECURSIVE StringsUpTo(_)
StringsUpTo(n) ==
    IF n = 0 THEN {<<>>}
    ELSE LET shorter == StringsUpTo(n - 1)
         IN  shorter \cup {Append(t, c) : t \in {u \in shorter : Len(u) = n - 1},
                                           c \in Alphabet}

ShortNames == StringsUpTo(1)

\* name fragments with a quotation mark at an end
QuotedNames ==
    UNION {{<<Quote>> \o n, n \o <<Quote>>, <<Quote>> \o n \o <<Quote>>} : n \in ShortNames}

Names == StringsUpTo(MaxNameLen) \cup QuotedNames

\* name fragments of letters only
LetterNames == {n \in StringsUpTo(MaxNameLen) : Range(n) \subseteq {"a", "A"}}

Text(s) == StringValue(s)

\* the locations argument
Locations == [l \in {"westeurope", "northeurope"} |->
                 IF l = "westeurope" THEN Text(<<"w", "e">>) ELSE Text(<<"n", "e">>)]

\* a schema entry as the tests give it
TypeSchema(resourceType) ==
    [resource_type |-> resourceType,
     abbreviation |-> Text(<<"r", "g">>),
     min_length |-> 1,
     max_length |-> 90,
     validation_regex |-> PatternResourceGroup,
     configuration |->
        [use_environment |-> TRUE, use_lower_case |-> FALSE, use_separator |-> TRUE,
         deny_double_hyphens |-> FALSE, name_precedence |-> <<>>, hash_length |-> 0]]

\* the configuration attribute as the tests give it
Configuration ==
    [convention |-> AtomValue("default"), environment |-> Text(<<>>),
     separator |-> Text(<<"-">>), random_seed |-> 1, hash_length |-> 0,
     lowercase |-> FALSE, prefixes |-> <<>>, suffixes |-> <<>>,
     location |-> AtomValue("westeurope")]

\* a settings object with every attribute null
NullAttrs ==
    [convention |-> AttrNull(""), location |-> AttrNull(""),
     environment |-> AttrNull(<<>>), separator |-> AttrNull(<<>>),
     hash_length |-> AttrNull(0), random_seed |-> AttrNull(0),
     lowercase |-> AttrNull(FALSE), prefixes |-> AttrNull(<<>>),
     suffixes |-> AttrNull(<<>>), name_precedence |-> AttrNull(<<>>)]

SettingsNull == [kind |-> "null", attrs |-> NullAttrs]
SettingsObject(attrs) == [kind |-> "object", attrs |-> attrs]
SettingsString == [kind |-> "string", attrs |-> NullAttrs]

Request(configuration, locations, schema, nameType, settings, name) ==
    [set |-> TRUE, configuration |-> configuration, locations |-> locations,
     schema |-> schema, name_type |-> nameType, settings |-> settings,
     name |-> Text(name)]

SchemaMap(keys, typeSchema) ==
    [k \in keys |-> [typeSchema EXCEPT !.resource_type = k]]

\* the length bounds tried: <<min_length, max_length>>
LengthBounds == {<<2, 3>>, <<1, 8>>}

\* calls that differ in the name and in what the schema demands of it
ValidationRequests ==
    { Request([Configuration EXCEPT !.convention = AtomValue(convention)],
              Locations,
              SchemaMap({"azurerm_resource_group"},
                  [TypeSchema("") EXCEPT
                      !.min_length = bounds[1], !.max_length = bounds[2],
                      !.validation_regex = regex,
                      !.configuration.deny_double_hyphens = deny,
                      !.configuration.use_lower_case = lower]),
              "azurerm_resource_group", SettingsNull, name) :
        convention \in {"default", "passthrough"},
        bounds \in LengthBounds,
        regex \in {PatternResourceGroup, PatternStorageAccount},
        deny \in BOOLEAN, lower \in BOOLEAN,
        name \in Names }

\* calls that differ in the schema map, the key asked for, the kind of the
\* settings argument and the base location
ParsingRequests ==
    { Request([Configuration EXCEPT !.location = location],
              Locations,
              SchemaMap(keys, TypeSchema("")),
              nameType, settings, name) :
        location \in {AtomNull, AtomValue("westeurope"), AtomValue("mars")},
        keys \in {{}, {"azurerm_resource_group"},
                  {"azurerm_resource_group", "azurerm_storage_account"}},
        nameType \in {"azurerm_resource_group", "invalid_resource_type"},
        settings \in {SettingsNull, SettingsObject(NullAttrs), SettingsString,
                      SettingsObject([NullAttrs EXCEPT
                                         !.convention = AttrValue("passthrough")])},
        name \in ShortNames }

\* calls that differ in the three lowercase flags and the convention
LowercaseRequests ==
    { Request([Configuration EXCEPT !.convention = AtomValue(convention),
                                    !.lowercase = baseLower],
              Locations,
              SchemaMap({"azurerm_resource_group"},
                  [TypeSchema("") EXCEPT !.configuration.use_lower_case = schemaLower]),
              "azurerm_resource_group",
              SettingsObject([NullAttrs EXCEPT !.lowercase = overrideLower]), name) :
        convention \in {"default", "passthrough"},
        baseLower \in BOOLEAN, schemaLower \in BOOLEAN,
        overrideLower \in {AttrNull(FALSE), AttrValue(FALSE), AttrValue(TRUE)},
        name \in LetterNames }

\* calls that differ in the gated fields: the environment, the separator and
\* the location of the settings and of the configuration, and the two gates
GatedRequests ==
    { Request([Configuration EXCEPT !.environment = baseEnvironment,
                                    !.separator = baseSeparator,
                                    !.location = baseLocation],
              Locations,
              SchemaMap({"azurerm_resource_group"},
                  [TypeSchema("") EXCEPT !.configuration.use_environment = useEnvironment,
                                         !.configuration.use_separator = useSeparator]),
              "azurerm_resource_group",
              SettingsObject([NullAttrs EXCEPT !.environment = environment,
                                               !.separator = separator,
                                               !.location = location]),
              <<"a">>) :
        baseEnvironment \in {StringNull, Text(<<>>), Text(<<"t">>)},
        baseSeparator \in {Text(<<>>), Text(<<"-">>)},
        baseLocation \in {AtomNull, AtomValue("westeurope")},
        useEnvironment \in BOOLEAN, useSeparator \in BOOLEAN,
        environment \in {AttrNull(<<>>), AttrValue(<<>>), AttrValue(<<"p">>)},
        separator \in {AttrNull(<<>>), AttrValue(<<>>), AttrValue(<<"_">>)},
        location \in {AttrNull(""), AttrValue(""), AttrValue("northeurope"),
                      AttrValue("mars")} }

\* calls that differ in the convention, the prefixes and the suffixes of
\* the settings and of the configuration
ListRequests ==
    { Request([Configuration EXCEPT !.convention = AtomValue(conventions[1]),
                                    !.prefixes = basePrefixes,
                                    !.suffixes = <<<<"s">>>>],
              Locations,
              SchemaMap({"azurerm_resource_group"}, TypeSchema("")),
              "azurerm_resource_group",
              SettingsObject([NullAttrs EXCEPT !.convention = conventions[2],
                                               !.prefixes = prefixes,
                                               !.suffixes = suffixes]),
              <<"A">>) :
        conventions \in {<<"default", AttrNull("")>>, <<"default", AttrValue("")>>,
                         <<"default", AttrValue("passthrough")>>,
                         <<"passthrough", AttrNull("")>>,
                         <<"passthrough", AttrValue("default")>>},
        basePrefixes \in {<<>>, <<<<"p">>>>},
        prefixes \in {AttrNull(<<>>), AttrValue(<<>>), AttrValue(<<<<"x">>>>)},
        suffixes \in {AttrNull(<<>>), AttrValue(<<<<"y">>>>)} }

\* calls that differ in the hash length and the seed of the settings, the
\* configuration and the schema
HashRequests ==
    { Request([Configuration EXCEPT !.prefixes = <<<<"p">>>>,
                                    !.suffixes = <<<<"s">>>>,
                                    !.hash_length = baseHashLength,
                                    !.random_seed = baseSeed],
              Locations,
              SchemaMap({"azurerm_resource_group"},
                  [TypeSchema("") EXCEPT !.configuration.hash_length = schemaHashLength]),
              "azurerm_resource_group",
              SettingsObject([NullAttrs EXCEPT !.hash_length = hashLength,
                                               !.random_seed = seed]),
              <<"A">>) :
        baseHashLength \in {0, 1},
        baseSeed \in {0, MaxSeed},
        schemaHashLength \in {0, MaxHashLen},
        hashLength \in {AttrNull(0), AttrValue(0), AttrValue(MaxHashLen)},
        seed \in {AttrNull(0), AttrValue(0), AttrValue(MinSeed), AttrValue(MaxSeed)} }

\* calls that differ in the precedence lists of the settings and of the
\* schema, the separator, and in values that are empty: an entry of the
\* prefixes, the abbreviation, the name
PrecedenceRequests ==
    { Request([Configuration EXCEPT !.environment = Text(<<"t">>),
                                    !.separator = Text(separator),
                                    !.prefixes = prefixes,
                                    !.suffixes = <<<<"s">>>>,
                                    !.hash_length = 1],
              Locations,
              SchemaMap({"azurerm_resource_group"},
                  [TypeSchema("") EXCEPT !.abbreviation = Text(abbreviation),
                                         !.configuration.name_precedence = schemaPrecedence]),
              "azurerm_resource_group",
              SettingsObject([NullAttrs EXCEPT !.name_precedence = precedence]),
              name) :
        separator \in {<<>>, <<"-">>},
        prefixes \in {<<<<"p">>, <<"q">>>>, <<<<"p">>, <<>>>>},
        abbreviation \in {<<"r", "g">>, <<>>},
        schemaPrecedence \in {<<>>, <<"location", "name", "abbreviation">>},
        precedence \in {AttrNull(<<>>), AttrValue(<<>>), AttrValue(<<"name", "hash">>),
                        AttrValue(<<"suffixes", "future", "name", "prefixes",
                                    "environment">>)},
        name \in {<<>>, <<"a">>, <<Quote, "a">>} }

\* calls whose configuration has no convention
ConventionRequests ==
    { Request([Configuration EXCEPT !.convention = baseConvention],
              Locations,
              SchemaMap({"azurerm_resource_group"}, TypeSchema("")),
              "azurerm_resource_group",
              settings,
              <<"A">>) :
        baseConvention \in {AtomNull, AtomValue("")},
        settings \in {SettingsNull,
                      SettingsObject(NullAttrs),
                      SettingsObject([NullAttrs EXCEPT !.convention = AttrValue("")]),
                      SettingsObject([NullAttrs EXCEPT !.convention = AttrValue("default")]),
                      SettingsObject([NullAttrs EXCEPT !.convention = AttrValue("passthrough")])} }

Requests ==
    ValidationRequests \cup ParsingRequests \cup LowercaseRequests
        \cup GatedRequests \cup ListRequests \cup HashRequests
        \cup PrecedenceRequests \cup ConventionRequests

\* one call of each function on the same arguments, in either order
Init ==
    /\ req \in Requests
    /\ nameResp = [done |-> FALSE]
    /\ validateResp = [done |-> FALSE]
    /\ seededRand = NilRand
    /\ hashHistory = <<>>
    /\ LocationsIdle
    /\ threads = <<>>

Spec == Init /\ [][NextFunctions]_vars

----------------------------------------------------------------------------
(* What the specification says of a name, stated apart from the code *)

\* the schema the call asks for
RequestedSchema == req.schema[req.name_type]

\* the pattern matches the whole name
FullMatch(pattern, name) ==
    LET re == RegexpMustCompile(pattern)
    IN
    /\ name /= <<>>
    /\ (Len(name) - 1) \in re.lo..re.hi
    /\ \A i \in DOMAIN name : name[i] \in (IF i = Len(name) THEN re.last ELSE re.body)

WithinLength(schema, name) ==
    schema.min_length <= Len(name) /\ Len(name) <= schema.max_length

HasDoubleHyphen(name) ==
    \E i \in DOMAIN name : i < Len(name) /\ name[i] = "-" /\ name[i + 1] = "-"

\* the lowercase fold of a text over Alphabet
Folded(name) == [i \in DOMAIN name |-> IF name[i] = "A" THEN "a" ELSE name[i]]

\* a name no check of the schema rejects
Acceptable(schema, name) ==
    /\ FullMatch(schema.validation_regex, name)
    /\ WithinLength(schema, name)
    /\ ~(schema.configuration.deny_double_hyphens /\ HasDoubleHyphen(name))

ParsingErrorTexts ==
    {ErrSchemaNotFound("", <<>>).text, ErrSettingsNotObject.text, ErrLocationNotFound.text}

LengthErrorTexts == {ErrMaximum(0, 0).text, ErrMinimum(0, 0).text}

----------------------------------------------------------------------------
(* Claims on the name and validate functions *)

\* C1: a failing Build reports exactly one validation error, by priority: the
\* double-hyphen error if double hyphens are denied and found, else the regex
\* error if the name does not match, else the length error.
BuildReportsOneError ==
    (nameResp.done /\ nameResp.checked) =>
        LET name == nameResp.validation.Name
            schema == RequestedSchema
        IN  IF schema.configuration.deny_double_hyphens /\ HasDoubleHyphen(name)
            THEN nameResp.err = <<ErrDoubleHyphens(name)>>
            ELSE IF ~FullMatch(schema.validation_regex, name)
            THEN nameResp.err = <<ErrRegex>>
            ELSE IF ~WithinLength(schema, name)
            THEN Len(nameResp.err) = 1 /\ nameResp.err[1].text \in LengthErrorTexts
            ELSE nameResp.err = <<>>

\* C2: Validate never fails because of a regex mismatch, a length violation
\* or a denied double hyphen; when parsing and resolution succeed it returns
\* the object in which each of the four checks is computed on its own.
ValidateReportsAllChecks ==
    validateResp.done =>
        /\ \A i \in DOMAIN validateResp.err : validateResp.err[i].text \in ParsingErrorTexts
        /\ validateResp.err = <<>> =>
            /\ validateResp.returned
            /\ LET o == validateResp.result
                   schema == RequestedSchema
               IN  /\ o.regex.valid = FullMatch(schema.validation_regex, o.name)
                   /\ o.length.valid = WithinLength(schema, o.name)
                   /\ o.double_hyphens_found = HasDoubleHyphen(o.name)
                   /\ o.double_hyphens_denied = schema.configuration.deny_double_hyphens

\* Validate returned an object in which three checks fail at once
ValidateSeveralFailures ==
    /\ validateResp.done
    /\ validateResp.returned
    /\ ~validateResp.result.regex.valid
    /\ ~validateResp.result.length.valid
    /\ validateResp.result.double_hyphens_found
    /\ validateResp.result.double_hyphens_denied

\* C3: on the same arguments Build and Validate both fail in parsing or
\* resolution, or both compute the same final name, and then Build returns
\* it without error exactly when Validate reports regex.valid, length.valid
\* and no denied double hyphen.
BuildValidateAgree ==
    (nameResp.done /\ validateResp.done) =>
        /\ nameResp.checked = validateResp.checked
        /\ ~nameResp.checked =>
              /\ ~nameResp.returned /\ ~validateResp.returned
              /\ Len(nameResp.err) = 1 /\ Len(validateResp.err) = 1
              /\ nameResp.err[1].text = validateResp.err[1].text
              /\ nameResp.err[1].text \in ParsingErrorTexts
        /\ nameResp.checked =>
              /\ nameResp.resultModel.Name = validateResp.resultModel.Name
              /\ validateResp.returned
              /\ nameResp.returned /\ nameResp.result = nameResp.resultModel.Name
              /\ (nameResp.err = <<>>) <=>
                    LET o == validateResp.result
                    IN  /\ o.regex.valid
                        /\ o.length.valid
                        /\ ~(o.double_hyphens_denied /\ o.double_hyphens_found)

\* both functions ran on a name that has a denied double hyphen and passes
\* the regex and the length bounds
BothRanOnDeniedDoubleHyphen ==
    /\ nameResp.done /\ validateResp.done
    /\ nameResp.checked
    /\ nameResp.err /= <<>>
    /\ validateResp.result.regex.valid
    /\ validateResp.result.length.valid
    /\ validateResp.result.double_hyphens_denied
    /\ validateResp.result.double_hyphens_found

\* whether one of the three lowercase flags of the call is set
AnyLowercaseFlag ==
    \/ RequestedSchema.configuration.use_lower_case
    \/ req.configuration.lowercase
    \/ (req.settings.kind = "object" /\ ~req.settings.attrs.lowercase.null
            /\ req.settings.attrs.lowercase.v)

\* C8: under the passthrough convention the name is the raw fragment, folded
\* to lowercase exactly when a lowercase flag is set; nothing else goes into
\* it, and it is still validated against the schema.
PassthroughIsRawFragment ==
    \A resp \in {nameResp, validateResp} :
        (resp.done /\ resp.assembled /\ resp.resultModel.Convention.v = "passthrough") =>
            LET expected == IF AnyLowercaseFlag THEN Folded(req.name.v) ELSE req.name.v
            IN  /\ resp.resultModel.Name = Text(expected)
                /\ resp.returned /\ resp.checked
                /\ resp = nameResp =>
                      /\ nameResp.result = Text(expected)
                      /\ (Quote \notin Range(expected)) =>
                            ((nameResp.err = <<>>) <=> Acceptable(RequestedSchema, expected))

\* Build passed through a fragment that a lowercase flag folded, under a
\* schema with an abbreviation, a separator and a location to leave out
PassthroughFolded ==
    /\ nameResp.done /\ nameResp.returned
    /\ nameResp.resultModel.Convention.v = "passthrough"
    /\ AnyLowercaseFlag
    /\ ~RequestedSchema.configuration.use_lower_case
    /\ Len(req.name.v) = MaxNameLen
    /\ "A" \in Range(req.name.v)
    /\ nameResp.err = <<>>
    /\ nameResp.result.v = Folded(req.name.v)

\* C9: when the requested key is absent from the schema map, Build and
\* Validate fail without assembling or validating a name, and the error
\* names the requested key and lists every key of the schema map.
SchemaNotFoundListsKeys ==
    \A resp \in {nameResp, validateResp} :
        (resp.done /\ req.name_type \notin DOMAIN req.schema) =>
            /\ ~resp.returned /\ ~resp.assembled /\ ~resp.checked
            /\ Len(resp.err) = 1
            /\ resp.err[1].text = ErrSchemaNotFound("", <<>>).text
            /\ resp.err[1].key = req.name_type
            /\ Range(resp.err[1].avail) = DOMAIN req.schema
            /\ Len(resp.err[1].avail) = Cardinality(DOMAIN req.schema)

\* both functions were asked for a key absent from a schema map of two keys
MissingKeyOfTwo ==
    /\ nameResp.done /\ validateResp.done
    /\ req.name_type \notin DOMAIN req.schema
    /\ Cardinality(DOMAIN req.schema) = 2
    /\ nameResp.err /= <<>> /\ validateResp.err /= <<>>

\* C10: when the schema map is empty, the error of Build and Validate says
\* so: its text is not the one reported for a map that lacks the key.
EmptySchemaIsStated ==
    \A resp \in {nameResp, validateResp} :
        (resp.done /\ DOMAIN req.schema = {}) =>
            /\ resp.err /= <<>>
            /\ resp.err[1].text /= ErrSchemaNotFound("", <<>>).text

\* the value the settings give a field, or zero when the settings are null or
\* leave the field null
OverrideOf(field, zero) ==
    IF req.settings.kind = "object" /\ ~req.settings.attrs[field].null
    THEN req.settings.attrs[field].v
    ELSE zero

\* the call assembled a name under the default convention
ResolvedByDefault(resp) ==
    resp.done /\ resp.assembled /\ resp.resultModel.Convention = AtomValue("default")

\* C6: for the environment, the separator and the location a non-empty
\* override of the call wins, whatever the gate of the schema and the base
\* location are; with an empty override and a false gate the environment and
\* the separator resolve to the empty string.
GatedOverrideWins ==
    \A resp \in {nameResp, validateResp} :
        ResolvedByDefault(resp) =>
            LET environment == OverrideOf("environment", <<>>)
                separator == OverrideOf("separator", <<>>)
                location == OverrideOf("location", "")
                gates == RequestedSchema.configuration
                resolved == resp.resultModel
            IN  /\ environment /= <<>> => resolved.Environment = Text(environment)
                /\ separator /= <<>> => resolved.Separator = Text(separator)
                /\ (environment = <<>> /\ ~gates.use_environment) =>
                        resolved.Environment = Text(<<>>)
                /\ (separator = <<>> /\ ~gates.use_separator) =>
                        resolved.Separator = Text(<<>>)
                /\ (location /= "" /\ location \in DOMAIN req.locations) =>
                        /\ resolved.Location = req.locations[location]
                        /\ \A i \in DOMAIN resp.err :
                              resp.err[i].text /= ErrLocationNotFound.text

\* Build named a resource with the environment, the separator and the location
\* of the settings although both gates are false and the configuration has
\* an environment, a separator and a location of its own
OverridesBeatClosedGates ==
    /\ ResolvedByDefault(nameResp) /\ nameResp.returned /\ nameResp.err = <<>>
    /\ ~RequestedSchema.configuration.use_environment
    /\ ~RequestedSchema.configuration.use_separator
    /\ req.configuration.environment = Text(<<"t">>)
    /\ req.configuration.separator = Text(<<"-">>)
    /\ req.configuration.location = AtomValue("westeurope")
    /\ OverrideOf("environment", <<>>) = <<"p">>
    /\ OverrideOf("separator", <<>>) = <<"_">>
    /\ OverrideOf("location", "") = "northeurope"
    /\ nameResp.result = Text(<<"r", "g", "_", "a", "_", "n", "e", "_", "p">>)

\* what the configuration and the schema alone make of the hash length
BaseHashLength ==
    IF req.configuration.hash_length > 0 THEN req.configuration.hash_length
    ELSE RequestedSchema.configuration.hash_length

\* what the configuration alone makes of the location
BaseLocation ==
    IF req.configuration.location.null \/ req.configuration.location.v = ""
    THEN StringNull
    ELSE IF req.configuration.location.v \in DOMAIN req.locations
         THEN req.locations[req.configuration.location.v]
    ELSE StringNull

\* C7: a field the settings leave null, empty or zero resolves to what it
\* resolves to without settings: the value of the configuration (for the
\* hash length that of the schema when the configuration has none), and a
\* settings object of nulls gives the name that null settings give.
UnsetOverrideKeepsBase ==
    /\ \A resp \in {nameResp, validateResp} :
        /\ (resp.done /\ resp.assembled /\ OverrideOf("convention", "") = "") =>
                resp.resultModel.Convention = req.configuration.convention
        /\ ResolvedByDefault(resp) =>
            LET resolved == resp.resultModel
                gates == RequestedSchema.configuration
            IN  /\ OverrideOf("prefixes", <<>>) = <<>> =>
                        resolved.Prefixes = req.configuration.prefixes
                /\ OverrideOf("suffixes", <<>>) = <<>> =>
                        resolved.Suffixes = req.configuration.suffixes
                /\ OverrideOf("hash_length", 0) = 0 =>
                        resolved.HashLength = BaseHashLength
                /\ OverrideOf("random_seed", 0) = 0 =>
                        resolved.RandomSeed = req.configuration.random_seed
                /\ OverrideOf("location", "") = "" =>
                        resolved.Location = BaseLocation
                /\ (OverrideOf("environment", <<>>) = <<>> /\ gates.use_environment) =>
                        resolved.Environment = req.configuration.environment
                /\ (OverrideOf("separator", <<>>) = <<>> /\ gates.use_separator) =>
                        resolved.Separator = req.configuration.separator
    /\ (nameResp.done /\ req.settings = SettingsObject(NullAttrs)
            /\ req.name_type \in DOMAIN req.schema) =>
          LET unset == NameRun([req EXCEPT !.settings = SettingsNull], <<>>, NilRand).resp
          IN  /\ nameResp.result = unset.result
              /\ nameResp.err = unset.err

\* Build got a settings object of nulls and named the resource with the
\* prefix, the suffix, the hash length and the seed of the configuration
NullSettingsKeepConfiguration ==
    /\ ResolvedByDefault(nameResp) /\ nameResp.returned /\ nameResp.err = <<>>
    /\ req.settings = SettingsObject(NullAttrs)
    /\ req.configuration.prefixes = <<<<"p">>>>
    /\ req.configuration.suffixes = <<<<"s">>>>
    /\ req.configuration.hash_length = 1
    /\ RequestedSchema.configuration.hash_length = MaxHashLen
    /\ req.configuration.random_seed = MaxSeed
    /\ nameResp.resultModel.HashLength = 1
    /\ nameResp.result =
          Text(<<"r", "g", "-", "p", "-", "A", "-", "w", "e", "-">>
                  \o Hash(NilRand, 1, MaxSeed).out \o <<"-", "s">>)

\* the location identifier of the call: that of the settings if not empty,
\* else that of the configuration if it has one, else empty
LocationIdentifier ==
    IF OverrideOf("location", "") /= "" THEN OverrideOf("location", "")
    ELSE IF ~req.configuration.location.null THEN req.configuration.location.v
    ELSE ""

HasLocationError(resp) ==
    \E i \in DOMAIN resp.err : resp.err[i].text = ErrLocationNotFound.text

\* C11: under the default convention an identifier that is no key of the
\* locations map makes Build and Validate fail with the location error and
\* return nothing; a key resolves to its abbreviation; an empty identifier
\* is not looked up and raises no location error.
LocationResolvedOrRejected ==
    \A resp \in {nameResp, validateResp} :
        ResolvedByDefault(resp) =>
            IF LocationIdentifier = ""
            THEN ~HasLocationError(resp) /\ resp.resultModel.Location = StringNull
                    /\ resp.returned
            ELSE IF LocationIdentifier \in DOMAIN req.locations
            THEN ~HasLocationError(resp) /\ resp.returned
                    /\ resp.resultModel.Location = req.locations[LocationIdentifier]
            ELSE HasLocationError(resp) /\ ~resp.returned /\ ~resp.checked

\* Build and Validate were given settings whose location is no key of the
\* map while the configuration's location is one, and both failed
UnknownOverrideLocation ==
    /\ ResolvedByDefault(nameResp) /\ ResolvedByDefault(validateResp)
    /\ OverrideOf("location", "") = "mars"
    /\ req.configuration.location = AtomValue("westeurope")
    /\ nameResp.err = <<ErrLocationNotFound>> /\ ~nameResp.returned
    /\ validateResp.err = <<ErrLocationNotFound>> /\ ~validateResp.returned

\* C12: when the name Build returns matches the regex and has no denied
\* double hyphen, Build fails with the maximum error exactly when the name
\* is longer than max_length, with the minimum error exactly when it is
\* shorter than min_length, each naming the length of the name and the bound,
\* and returns the name without error when the length is within the bounds.
LengthErrorsExact ==
    (nameResp.done /\ nameResp.returned) =>
        LET name == nameResp.result.v
            schema == RequestedSchema
        IN  (FullMatch(schema.validation_regex, name)
                /\ ~(schema.configuration.deny_double_hyphens /\ HasDoubleHyphen(name))) =>
                IF Len(name) > schema.max_length
                THEN nameResp.err = <<ErrMaximum(Len(name), schema.max_length)>>
                ELSE IF Len(name) < schema.min_length
                THEN nameResp.err = <<ErrMinimum(Len(name), schema.min_length)>>
                ELSE nameResp.err = <<>>

\* Build folded an assembled name that is longer than the maximum and
\* reported its length and the maximum
FoldedNameTooLong ==
    /\ nameResp.done /\ nameResp.returned
    /\ RequestedSchema.configuration.use_lower_case
    /\ "A" \in Range(req.name.v)
    /\ nameResp.resultModel.Convention = AtomValue("default")
    /\ nameResp.result.v = <<"r", "g", "-">> \o Folded(req.name.v) \o <<"-", "w", "e">>
    /\ RequestedSchema.max_length < Len(nameResp.result.v)
    /\ nameResp.err = <<ErrMaximum(Len(nameResp.result.v), RequestedSchema.max_length)>>

NonEmptyText(t) == t /= <<>>

\* what a token of the precedence list contributes to the name, given the
\* resolved values: a list of texts, the empty ones left out
Contribution(token, resolved) ==
    LET one(t) == IF t = <<>> THEN <<>> ELSE <<t>>
    IN  CASE token = "abbreviation" -> one(ValueString(RequestedSchema.abbreviation))
          [] token = "prefixes" -> SelectSeq(resolved.Prefixes, NonEmptyText)
          [] token = "suffixes" -> SelectSeq(resolved.Suffixes, NonEmptyText)
          [] token = "name" -> one(ValueString(req.name))
          [] token = "environment" -> one(ValueString(resolved.Environment))
          [] token = "location" ->
                IF LocationIdentifier \in DOMAIN req.locations
                THEN one(ValueString(req.locations[LocationIdentifier]))
                ELSE <<>>
          [] token = "hash" ->
                IF resolved.HashLength > 0
                THEN <<Hash(NilRand, resolved.HashLength, resolved.RandomSeed).out>>
                ELSE <<>>
          [] OTHER -> <<>>

RECURSIVE ContributionsFrom(_, _)
ContributionsFrom(i, resolved) ==
    IF i > Len(resolved.NamePrecedence) THEN <<>>
    ELSE Contribution(resolved.NamePrecedence[i], resolved)
            \o ContributionsFrom(i + 1, resolved)

\* the contributions of the resolved precedence list, in token order, joined
\* with the resolved separator
JoinedContributions(resolved) ==
    StringsJoin(ContributionsFrom(1, resolved), ValueString(resolved.Separator))

\* C18: under the default convention the name is the contributions of the
\* tokens of the resolved precedence list, in token order, joined with the
\* resolved separator; a token that is none of the seven contributes nothing
\* and raises no error.
NameIsJoinedContributions ==
    \A resp \in {nameResp, validateResp} :
        (ResolvedByDefault(resp) /\ resp.returned) =>
            resp.resultModel.Name =
                Text(IF AnyLowercaseFlag
                     THEN StringsToLower(JoinedContributions(resp.resultModel))
                     ELSE JoinedContributions(resp.resultModel))

\* the values a token can contribute hold no separator character
ValuesFreeOf(c, resolved) ==
    /\ c \notin Range(ValueString(RequestedSchema.abbreviation))
    /\ c \notin Range(ValueString(req.name))
    /\ c \notin Range(ValueString(resolved.Environment))
    /\ c \notin Range(ValueString(resolved.Location))
    /\ \A j \in DOMAIN resolved.Prefixes : c \notin Range(resolved.Prefixes[j])
    /\ \A j \in DOMAIN resolved.Suffixes : c \notin Range(resolved.Suffixes[j])

\* C19: an empty value appends no component, whatever the token: when the
\* separator is "-" and no value holds a "-", the assembled name neither
\* begins nor ends with the separator and has no two separators in a row.
EmptyValuesAppendNothing ==
    \A resp \in {nameResp, validateResp} :
        (/\ ResolvedByDefault(resp)
         /\ resp.resultModel.Separator = Text(<<"-">>)
         /\ ValuesFreeOf("-", resp.resultModel)) =>
            LET name == ValueString(resp.resultModel.Name)
            IN  \/ name = <<>>
                \/ /\ name[1] /= "-"
                   /\ name[Len(name)] /= "-"
                   /\ ~HasDoubleHyphen(name)

\* neither the settings of the call nor the configuration names a convention
NoConventionGiven ==
    /\ OverrideOf("convention", "") = ""
    /\ req.configuration.convention \in {AtomNull, AtomValue("")}

\* C20: the convention is the settings' if not empty, else the
\* configuration's, else "default": a call with no convention from either is
\* assembled under the default convention, its name is the joined
\* contributions and not the raw fragment handed through.
NoConventionMeansDefault ==
    \A resp \in {nameResp, validateResp} :
        (resp.done /\ resp.assembled /\ NoConventionGiven) =>
            /\ resp.resultModel.Convention = AtomValue("default")
            /\ resp.resultModel.Name =
                Text(IF AnyLowercaseFlag
                     THEN StringsToLower(JoinedContributions(resp.resultModel))
                     ELSE JoinedContributions(resp.resultModel))

\* the hash length and the seed the three sources of a call resolve to
ExpectedHashLength ==
    IF OverrideOf("hash_length", 0) > 0 THEN OverrideOf("hash_length", 0)
    ELSE IF req.configuration.hash_length > 0 THEN req.configuration.hash_length
    ELSE RequestedSchema.configuration.hash_length

ExpectedRandomSeed ==
    IF OverrideOf("random_seed", 0) > 0 THEN OverrideOf("random_seed", 0)
    ELSE req.configuration.random_seed

\* the name fragment, the abbreviation and the list entries are not empty
\* and hold no quotation mark
PlainValues(resolved) ==
    LET plain(t) == t /= <<>> /\ Quote \notin Range(t)
    IN  /\ plain(ValueString(req.name))
        /\ plain(ValueString(RequestedSchema.abbreviation))
        /\ \A j \in DOMAIN resolved.Prefixes : plain(resolved.Prefixes[j])
        /\ \A j \in DOMAIN resolved.Suffixes : plain(resolved.Suffixes[j])

\* C21: the hash length is the settings' if > 0, else the configuration's
\* if > 0, else the schema's; the seed is the settings' if > 0, else the
\* configuration's; the name holds a hash component exactly when the
\* precedence list has the token hash and that length is > 0, and the
\* component is Hash(length, seed), of that length.  The resolved values
\* are stated for every call, the name for the calls whose other values are
\* not empty and hold no quotation mark.
HashResolvedAndAppended ==
    \A resp \in {nameResp, validateResp} :
        ResolvedByDefault(resp) =>
            LET resolved == resp.resultModel
                expected == [resolved EXCEPT !.HashLength = ExpectedHashLength,
                                             !.RandomSeed = ExpectedRandomSeed]
                hash == Hash(NilRand, ExpectedHashLength, ExpectedRandomSeed).out
                joined == JoinedContributions(expected)
            IN  /\ resolved.HashLength = ExpectedHashLength
                /\ resolved.RandomSeed = ExpectedRandomSeed
                /\ Len(hash) = ExpectedHashLength
                /\ PlainValues(resolved) =>
                        resp.resultModel.Name =
                            Text(IF AnyLowercaseFlag THEN StringsToLower(joined) ELSE joined)

\* a call whose settings give hash length 0 and a negative seed, whose
\* configuration gives a hash length and a seed: a hash of the
\* configuration's length and seed is in the name
HashOfConfigurationUnderZeroOverride ==
    /\ ResolvedByDefault(nameResp) /\ nameResp.returned
    /\ req.settings.kind = "object"
    /\ req.settings.attrs.hash_length = AttrValue(0)
    /\ req.settings.attrs.random_seed = AttrValue(MinSeed)
    /\ req.configuration.hash_length = 1
    /\ RequestedSchema.configuration.hash_length = MaxHashLen
    /\ req.configuration.random_seed = MaxSeed
    /\ nameResp.result.v = <<"r", "g", "-", "p", "-", "A", "-", "w", "e", "-">>
            \o Hash(NilRand, 1, MaxSeed).out \o <<"-", "s">>

\* the name before the lowercase fold: the joined contributions under the
\* default convention, the raw fragment under any other
UnfoldedName(resp) ==
    IF resp.resultModel.Convention = AtomValue("default")
    THEN JoinedContributions(resp.resultModel)
    ELSE ValueString(req.name)

\* C22: the name is folded to lowercase exactly when the schema's, the
\* configuration's or the settings' lowercase flag is true, in the assembled
\* and in the passthrough branch alike; the fold comes before validation, so
\* the regex, length and double-hyphen checks and the returned name are those
\* of the folded string.  Stated for the calls whose values are not empty
\* and for the names that hold no quotation mark.
FoldedIffAnyFlagBeforeValidation ==
    \A resp \in {nameResp, validateResp} :
        (/\ resp.done /\ resp.assembled
         /\ ResolvedByDefault(resp) => PlainValues(resp.resultModel)) =>
            LET unfolded == UnfoldedName(resp)
                final == IF AnyLowercaseFlag THEN StringsToLower(unfolded) ELSE unfolded
            IN  /\ resp.resultModel.Name = Text(final)
                /\ (resp.checked /\ Quote \notin Range(final)) =>
                    /\ resp.validation.Name = final
                    /\ resp.validation.NameLength = Len(final)
                    /\ resp.validation.RegexValid
                            = FullMatch(RequestedSchema.validation_regex, final)
                    /\ resp.validation.LengthValid = WithinLength(RequestedSchema, final)
                    /\ resp.validation.DoubleHyphensFound = HasDoubleHyphen(final)
                /\ (resp = nameResp /\ resp.returned) => resp.result = Text(final)

\* a passthrough call whose settings say lowercase = false while the schema
\* says use_lower_case: the fragment "A" is returned and validated as "a"
OverrideFalseDoesNotUnfold ==
    /\ nameResp.done /\ nameResp.returned /\ nameResp.checked
    /\ nameResp.resultModel.Convention = AtomValue("passthrough")
    /\ req.settings.kind = "object"
    /\ req.settings.attrs.lowercase = AttrValue(FALSE)
    /\ RequestedSchema.configuration.use_lower_case
    /\ ~req.configuration.lowercase
    /\ req.name = Text(<<"A">>)
    /\ nameResp.result = Text(<<"a">>)
    /\ nameResp.validation.Name = <<"a">>

\* the precedence list that wins: the settings', else the schema's, else the
\* fixed default
WinningNamePrecedence ==
    IF OverrideOf("name_precedence", <<>>) /= <<>> THEN OverrideOf("name_precedence", <<>>)
    ELSE IF RequestedSchema.configuration.name_precedence /= <<>>
         THEN RequestedSchema.configuration.name_precedence
    ELSE DefaultNamePrecedence

\* C23: the resolved precedence list is the settings' list if not empty,
\* else the schema's if not empty, else the fixed default, whole and never
\* merged; the name holds the contributions of the tokens of that list alone
\* (stated for the calls whose values are not empty and hold no quotation
\* mark), so a token only a losing list names contributes nothing.
PrecedenceReplacedWholesale ==
    \A resp \in {nameResp, validateResp} :
        ResolvedByDefault(resp) =>
            LET resolved == resp.resultModel
                joined == JoinedContributions(
                              [resolved EXCEPT !.NamePrecedence = WinningNamePrecedence])
            IN  /\ resolved.NamePrecedence = WinningNamePrecedence
                /\ resolved.NamePrecedence \in
                        {OverrideOf("name_precedence", <<>>),
                         RequestedSchema.configuration.name_precedence,
                         DefaultNamePrecedence}
                /\ PlainValues(resolved) =>
                        resolved.Name =
                            Text(IF AnyLowercaseFlag THEN StringsToLower(joined) ELSE joined)

\* the settings name (name, hash) and the schema (location, name,
\* abbreviation): the name is the fragment and the hash, with neither the
\* location nor the abbreviation of the schema's list
OverrideListDropsSchemaTokens ==
    /\ ResolvedByDefault(nameResp) /\ nameResp.returned
    /\ OverrideOf("name_precedence", <<>>) = <<"name", "hash">>
    /\ RequestedSchema.configuration.name_precedence = <<"location", "name", "abbreviation">>
    /\ ValueString(RequestedSchema.abbreviation) = <<"r", "g">>
    /\ req.name = Text(<<"a">>)
    /\ nameResp.resultModel.Separator = Text(<<"-">>)
    /\ nameResp.resultModel.HashLength = 1
    /\ nameResp.result.v = <<"a", "-">>
            \o Hash(NilRand, 1, nameResp.resultModel.RandomSeed).out

\* C24: in the result of the validator the length is the length of the name,
\* lengthValid says min_length <= length <= max_length with both bounds
\* allowed, doubleHyphensFound says "--" occurs in the name,
\* doubleHyphensDenied is the schema's deny_double_hyphens, and min, max and
\* regex are the schema's; no field depends on the outcome of another check.
ValidatorFieldsIndependent ==
    \A resp \in {nameResp, validateResp} :
        (resp.done /\ resp.checked) =>
            LET v == resp.validation
                schema == RequestedSchema
                n == Len(v.Name)
            IN  /\ v.NameLength = n
                /\ v.LengthValid <=> (schema.min_length <= n /\ n <= schema.max_length)
                /\ v.DoubleHyphensFound <=>
                        (\E i \in 1..(n - 1) : v.Name[i] = "-" /\ v.Name[i + 1] = "-")
                /\ v.DenyDoubleHyphens = schema.configuration.deny_double_hyphens
                /\ v.MinLength = schema.min_length
                /\ v.MaxLength = schema.max_length
                /\ v.ValidationRegex = schema.validation_regex
                /\ (resp = validateResp /\ resp.returned) =>
                    /\ resp.result.name = v.Name
                    /\ resp.result.length.is = n
                    /\ resp.result.length.valid = v.LengthValid
                    /\ resp.result.length.min = schema.min_length
                    /\ resp.result.length.max = schema.max_length
                    /\ resp.result.regex.match = schema.validation_regex
                    /\ resp.result.double_hyphens_found = v.DoubleHyphensFound
                    /\ resp.result.double_hyphens_denied = v.DenyDoubleHyphens

\* a name as long as max_length that fails the regex and has a double
\* hyphen the schema does not deny: the length is valid all the same
LengthAtMaximumWithOtherFailures ==
    /\ validateResp.done /\ validateResp.checked /\ validateResp.returned
    /\ validateResp.validation.NameLength = RequestedSchema.max_length
    /\ RequestedSchema.min_length < RequestedSchema.max_length
    /\ validateResp.result.length.valid
    /\ ~validateResp.result.regex.valid
    /\ validateResp.result.double_hyphens_found
    /\ ~validateResp.result.double_hyphens_denied

\* C28: the string Build returns is the string its validation checked,
\* character for character, and the name Validate reports on the same
\* arguments, under either convention and whatever the raw fragment, one
\* that begins or ends with a quotation mark included.
BuildReturnsTheCheckedName ==
    /\ (nameResp.done /\ nameResp.returned /\ nameResp.checked) =>
            /\ ValueString(nameResp.result) = nameResp.validation.Name
            /\ Len(ValueString(nameResp.result)) = nameResp.validation.NameLength
    /\ (nameResp.done /\ nameResp.returned /\ validateResp.done /\ validateResp.returned) =>
            ValueString(nameResp.result) = validateResp.result.name

----------------------------------------------------------------------------
(* Sequential calls of Hash *)

InitIdle ==
    /\ req = [set |-> FALSE]
    /\ nameResp = [done |-> FALSE]
    /\ validateResp = [done |-> FALSE]
    /\ seededRand = NilRand
    /\ hashHistory = <<>>
    /\ LocationsIdle
    /\ threads = <<>>

\* one call random.Hash(length, seed), run to its end
HashCall(length, seed) ==
    /\ Len(hashHistory) < MaxCalls
    /\ LET h == Hash(seededRand, length, seed)
       IN  /\ seededRand' = h.rand
           /\ hashHistory' = Append(hashHistory,
                  [length |-> length, seed |-> seed, out |-> h.out])
    /\ UNCHANGED <<req, nameResp, validateResp, threads, locationVars>>

NextHash == \E length \in HashLengths, seed \in Seeds : HashCall(length, seed)

SpecHash == InitIdle /\ [][NextHash]_vars

\* C4: two calls Hash(length, seed) with the same length and seed return the
\* same string, whatever calls were made before them or between them.
HashDeterministic ==
    \A i, j \in DOMAIN hashHistory :
        (hashHistory[i].length = hashHistory[j].length
            /\ hashHistory[i].seed = hashHistory[j].seed)
        => hashHistory[i].out = hashHistory[j].out

\* a call repeated after a call with another seed that drew from its generator
HashRepeatedAfterOther ==
    /\ Len(hashHistory) >= 3
    /\ hashHistory[1].length = MaxHashLen
    /\ hashHistory[3].length = hashHistory[1].length
    /\ hashHistory[3].seed = hashHistory[1].seed
    /\ hashHistory[2].seed /= hashHistory[1].seed
    /\ hashHistory[2].length > 0
    /\ hashHistory[2].out /= hashHistory[1].out

\* the letters a hash may consist of
HashLetters ==
    {"a", "b", "c", "d", "e", "f", "g", "h", "i", "j", "k", "l", "m",
     "n", "o", "p", "q", "r", "s", "t", "u", "v", "w", "x", "y", "z"}

\* C13: for every seed, zero and negative ones too, Hash(length, seed) is a
\* string of exactly length characters, each of a to z; for length 0 it is
\* the empty string.
HashHasLengthAndLetters ==
    \A i \in DOMAIN hashHistory :
        /\ Len(hashHistory[i].out) = hashHistory[i].length
        /\ \A k \in DOMAIN hashHistory[i].out : hashHistory[i].out[k] \in HashLetters
        /\ hashHistory[i].length = 0 => hashHistory[i].out = <<>>

\* a hash of the greatest length for a negative seed, an empty one for the
\* seed zero and one of the greatest length for the seed zero
HashesOfNegativeAndZeroSeed ==
    /\ Len(hashHistory) = 3
    /\ hashHistory[1].seed = MinSeed /\ hashHistory[1].length = MaxHashLen
    /\ Len(hashHistory[1].out) = MaxHashLen
    /\ hashHistory[2].seed = 0 /\ hashHistory[2].length = 0
    /\ hashHistory[2].out = <<>>
    /\ hashHistory[3].seed = 0 /\ hashHistory[3].length = MaxHashLen
    /\ Len(hashHistory[3].out) = MaxHashLen

----------------------------------------------------------------------------
(* Two Hash invocations on concurrent threads, as when two function calls  *)
(* of the provider run in parallel.  seededRand is a package variable that *)
(* both write and read without synchronisation; the threads interleave at  *)
(* the statements of Hash and StringWithCharset.                           *)

Threads == {1, 2}

InitConcurrent ==
    /\ req = [set |-> FALSE]
    /\ nameResp = [done |-> FALSE]
    /\ validateResp = [done |-> FALSE]
    /\ seededRand = NilRand
    /\ hashHistory = <<>>
    /\ LocationsIdle
    /\ \E l1, l2 \in HashLengths, s1, s2 \in Seeds :
          /\ s1 /= s2
          /\ threads = <<[pc |-> "Hash", length |-> l1, seed |-> s1, b |-> <<>>, out |-> <<>>],
                         [pc |-> "Hash", length |-> l2, seed |-> s2, b |-> <<>>, out |-> <<>>]>>

\* Hash: seededRand = rand.New(rand.NewSource(seed))
HashSeed(t) ==
    /\ threads[t].pc = "Hash"
    /\ seededRand' = RandNew(threads[t].seed)
    /\ threads' = [threads EXCEPT ![t].pc = "loop"]
    /\ UNCHANGED <<req, nameResp, validateResp, hashHistory, locationVars>>

\* StringWithCharset: b[i] = charset[seededRand.Intn(len(charset))]
HashDraw(t) ==
    /\ threads[t].pc = "loop"
    /\ Len(threads[t].b) < threads[t].length
    /\ LET d == RandIntn(seededRand, Len(charset))
       IN  /\ seededRand' = d.rand
           /\ threads' = [threads EXCEPT ![t].b = Append(@, charset[d.val + 1])]
    /\ UNCHANGED <<req, nameResp, validateResp, hashHistory, locationVars>>

\* StringWithCharset: return string(b)
HashReturn(t) ==
    /\ threads[t].pc = "loop"
    /\ Len(threads[t].b) = threads[t].length
    /\ threads' = [threads EXCEPT ![t].pc = "done", ![t].out = threads[t].b]
    /\ UNCHANGED <<req, nameResp, validateResp, seededRand, hashHistory, locationVars>>

NextConcurrent == \E t \in Threads : HashSeed(t) \/ HashDraw(t) \/ HashReturn(t)

SpecConcurrent == InitConcurrent /\ [][NextConcurrent]_vars

\* C5: under every interleaving of two Hash invocations with different
\* seeds, each invocation returns the string it returns when run alone.
ConcurrentHashIsolated ==
    \A t \in DOMAIN threads :
        threads[t].pc = "done"
        => threads[t].out = Hash(NilRand, threads[t].length, threads[t].seed).out

----------------------------------------------------------------------------
(* internal/schema: location maps.  A Go map is nil or holds a finite      *)
(* function from keys to values.                                           *)

NoEntries == [k \in {} |-> ""]

\* a nil map
NilMap == [nil |-> TRUE, m |-> NoEntries]

\* make(LocationsMapSchema, n) filled with the entries of f
MakeMap(f) == [nil |-> FALSE, m |-> f]

\* len(m)
MapLen(map) == Cardinality(DOMAIN map.m)

\* an overlay that also adds the aliases of locations the map lacks
ApplyAliasesAddsKeys(locations, aliases) ==
    IF MapLen(aliases) = 0 THEN locations
    ELSE MakeMap([key \in DOMAIN locations.m \cup DOMAIN aliases.m |->
                     IF key \in DOMAIN aliases.m THEN aliases.m[key]
                     ELSE locations.m[key]])

\* an overlay that looks the alias up by the value of the location
ApplyAliasesByValue(locations, aliases) ==
    IF MapLen(aliases) = 0 THEN locations
    ELSE MakeMap([key \in DOMAIN locations.m |->
                     IF locations.m[key] \in DOMAIN aliases.m
                     THEN aliases.m[locations.m[key]]
                     ELSE locations.m[key]])

\* ApplyAliases: without aliases the map itself, else a new map with the
\* keys of locations
ApplyAliases(locations, aliases) ==
    IF MapLen(aliases) = 0 THEN locations
    ELSE MakeMap([key \in DOMAIN locations.m |->
                     IF key \in DOMAIN aliases.m THEN aliases.m[key]
                     ELSE locations.m[key]])

\* the most applications of ApplyAliases followed
MaxApplications == 2

\* every map, nil or not, from some of the keys to the values
MapsOver(keys, values) ==
    {NilMap} \cup {MakeMap(f) : f \in UNION {[S -> values] : S \in SUBSET keys}}

\* location maps: a location maps to its own name or to a short code
LocationMaps == MapsOver({"eastus", "westeurope"}, {"eastus", "eus"})

\* alias tables: original name -> new name, also for a name no map has
AliasTables == MapsOver({"eastus", "eus"}, {"eus", "e"})

InitAliases ==
    /\ req = [set |-> FALSE]
    /\ nameResp = [done |-> FALSE]
    /\ validateResp = [done |-> FALSE]
    /\ seededRand = NilRand
    /\ hashHistory = <<>>
    /\ threads = <<>>
    /\ \E locations \in LocationMaps, aliases \in AliasTables :
          overlay = [set |-> TRUE, locations |-> locations, aliases |-> aliases,
                     applied |-> <<>>]
    /\ files = <<>>
    /\ now = 0
    /\ remote = <<>>
    /\ fetchLog = <<>>
    /\ fetchers = <<>>
    /\ served = <<>>
    /\ provider = <<>>

\* ApplyAliases on the map, or on what the last application returned
ApplyAliasesCall ==
    /\ overlay.set
    /\ Len(overlay.applied) < MaxApplications
    /\ LET input == IF overlay.applied = <<>> THEN overlay.locations
                    ELSE overlay.applied[Len(overlay.applied)]
       IN  overlay' = [overlay EXCEPT
                          !.applied = Append(@, ApplyAliases(input, overlay.aliases))]
    /\ UNCHANGED <<req, nameResp, validateResp, seededRand, hashHistory, threads,
                   files, now, remote, fetchLog, fetchers, served, provider>>

NextAliases == ApplyAliasesCall

SpecAliases == InitAliases /\ [][NextAliases]_vars

\* C16: ApplyAliases returns a map with exactly the keys of the location
\* map: a key the alias table has maps to its alias, every other key keeps
\* its value, and an alias for a key the map lacks adds nothing.
AliasesKeepKeys ==
    (overlay.set /\ Len(overlay.applied) >= 1) =>
        LET result == overlay.applied[1].m
            locations == overlay.locations.m
            aliases == overlay.aliases.m
        IN  /\ DOMAIN result = DOMAIN locations
            /\ \A key \in DOMAIN locations :
                  result[key] = IF key \in DOMAIN aliases THEN aliases[key]
                                ELSE locations[key]

\* a map of two locations overlaid with an alias for one of them and an
\* alias for a location the map lacks
AliasForOneOfTwo ==
    /\ overlay.set /\ Len(overlay.applied) >= 1
    /\ DOMAIN overlay.locations.m = {"eastus", "westeurope"}
    /\ DOMAIN overlay.aliases.m = {"eastus", "eus"}
    /\ overlay.locations.m["eastus"] /= overlay.aliases.m["eastus"]
    /\ overlay.applied[1].m["eastus"] = overlay.aliases.m["eastus"]
    /\ overlay.applied[1].m["westeurope"] = overlay.locations.m["westeurope"]
    /\ "eus" \notin DOMAIN overlay.applied[1].m

\* C17: applying the same alias table to the result of ApplyAliases gives
\* that result again, for every map and every table, nil and empty included.
AliasesIdempotent ==
    (overlay.set /\ Len(overlay.applied) >= 2) =>
        /\ DOMAIN overlay.applied[2].m = DOMAIN overlay.applied[1].m
        /\ \A key \in DOMAIN overlay.applied[1].m :
              overlay.applied[2].m[key] = overlay.applied[1].m[key]

\* the table was applied twice to a location whose alias has an alias itself
AliasOfAliasAppliedTwice ==
    /\ overlay.set /\ Len(overlay.applied) = 2
    /\ "eastus" \in DOMAIN overlay.locations.m
    /\ overlay.locations.m["eastus"] = "eastus"
    /\ DOMAIN overlay.aliases.m = {"eastus", "eus"}
    /\ overlay.aliases.m["eastus"] = "eus"
    /\ overlay.aliases.m["eus"] = "e"
    /\ overlay.applied[1].m["eastus"] = "eus"
    /\ overlay.applied[2].m["eastus"] = "eus"

----------------------------------------------------------------------------
(* internal/schema: AzureLocationFetcher, the fetch of the location map    *)
(* from the Azure API behind a cache file.  Time is counted in units of    *)
(* the default cacheTTL, 24 hours.                                         *)

\* the latest time followed
MaxTime == 2

\* NewAzureLocationFetcher: cacheTTL, 24 * time.Hour
CacheTTL == 1

\* the azure.Config of the fetchers
AzureConfigs ==
    {[SubscriptionId |-> "sub-1", Environment |-> "public"],
     [SubscriptionId |-> "sub-2", Environment |-> "public"]}

\* AzureLocationFetcher.CacheKey: the digest of "azure-<subscription>-<environment>",
\* which differs for the configurations above
CacheKey(config) == <<"azure", config.SubscriptionId, config.Environment>>

CacheKeys == {CacheKey(config) : config \in AzureConfigs}

\* the maps GetLocationsMap may have for a subscription
RemoteMaps ==
    {[k \in {"eastus"} |-> "eus"],
     [k \in {"eastus", "westeurope"} |-> IF k = "eastus" THEN "eus" ELSE "we"]}

\* the cache file: absent, cut off in the middle of a write, or the JSON of
\* an azureLocationCache
FileAbsent == [kind |-> "absent"]
FileTorn == [kind |-> "torn"]

\* json.MarshalIndent(azureLocationCache{locations, timestamp}): a nil map is
\* written as null
MarshalCache(locations, timestamp) ==
    [kind |-> "entry",
     locations |-> [null |-> locations.nil, object |-> locations.m],
     timestamp |-> timestamp]

\* a load that takes an entry whose age is exactly the TTL for expired
loadFromCacheStrict(file, time) ==
    IF file.kind = "absent" THEN [err |-> "no such file", locations |-> NilMap]
    ELSE IF file.kind = "torn" THEN [err |-> "unexpected end of JSON input", locations |-> NilMap]
    ELSE IF time - file.timestamp >= CacheTTL
         THEN [err |-> "cache expired", locations |-> NilMap]
    ELSE [err |-> "",
          locations |-> IF file.locations.null THEN NilMap ELSE MakeMap(file.locations.object)]

\* a load that never takes an entry for expired
loadFromCacheForever(file, time) ==
    IF file.kind = "absent" THEN [err |-> "no such file", locations |-> NilMap]
    ELSE IF file.kind = "torn" THEN [err |-> "unexpected end of JSON input", locations |-> NilMap]
    ELSE [err |-> "",
          locations |-> IF file.locations.null THEN NilMap ELSE MakeMap(file.locations.object)]

\* AzureLocationFetcher.loadFromCache at the given time: os.ReadFile,
\* json.Unmarshal, then the check of the age against cacheTTL
loadFromCache(file, time) ==
    IF file.kind = "absent" THEN [err |-> "no such file", locations |-> NilMap]
    ELSE IF file.kind = "torn" THEN [err |-> "unexpected end of JSON input", locations |-> NilMap]
    ELSE IF time - file.timestamp > CacheTTL
         THEN [err |-> "cache expired", locations |-> NilMap]
    ELSE [err |-> "",
          locations |-> IF file.locations.null THEN NilMap ELSE MakeMap(file.locations.object)]

\* how a call of saveToCache may end: the file written; os.MkdirAll or the
\* opening of the file failed and the file is as it was; the write failed
\* after os.WriteFile had truncated the file
SaveOutcomes == {"written", "failed", "failed torn"}

\* AzureLocationFetcher.saveToCache: the file it leaves
saveToCache(file, locations, time, outcome) ==
    IF outcome = "written" THEN MarshalCache(locations, time)
    ELSE IF outcome = "failed torn" THEN FileTorn
    ELSE file

\* how the live fetch may end: azure.NewLocationClient fails, GetLocationsMap
\* fails, or GetLocationsMap returns the map
LiveOutcomes == {"client error", "api error", "ok"}

\* a Fetch that falls back to the map of an expired entry when the live
\* fetch fails
FetchStaleOnError(file, time, remoteMap, live, save) ==
    LET cached == loadFromCache(file, time)
        stale == cached.err = "cache expired" /\ ~file.locations.null
    IN  IF cached.err = "" /\ ~cached.locations.nil
        THEN [err |-> "", locations |-> cached.locations, read |-> cached.err,
              client |-> FALSE, api |-> FALSE, saved |-> "none", file |-> file]
        ELSE IF live = "client error"
        THEN [err |-> IF stale THEN "" ELSE "failed to create Azure location client",
              locations |-> IF stale THEN MakeMap(file.locations.object) ELSE NilMap,
              read |-> cached.err,
              client |-> TRUE, api |-> FALSE, saved |-> "none", file |-> file]
        ELSE IF live = "api error"
        THEN [err |-> IF stale THEN "" ELSE "failed to fetch Azure locations",
              locations |-> IF stale THEN MakeMap(file.locations.object) ELSE NilMap,
              read |-> cached.err,
              client |-> TRUE, api |-> TRUE, saved |-> "none", file |-> file]
        ELSE [err |-> "", locations |-> MakeMap(remoteMap), read |-> cached.err,
              client |-> TRUE, api |-> TRUE, saved |-> save,
              file |-> saveToCache(file, MakeMap(remoteMap), time, save)]

\* a Fetch that returns the error of saveToCache
FetchFailsOnSaveError(file, time, remoteMap, live, save) ==
    LET cached == loadFromCache(file, time)
    IN  IF cached.err = "" /\ ~cached.locations.nil
        THEN [err |-> "", locations |-> cached.locations, read |-> cached.err,
              client |-> FALSE, api |-> FALSE, saved |-> "none", file |-> file]
        ELSE IF live = "client error"
        THEN [err |-> "failed to create Azure location client", locations |-> NilMap,
              read |-> cached.err,
              client |-> TRUE, api |-> FALSE, saved |-> "none", file |-> file]
        ELSE IF live = "api error"
        THEN [err |-> "failed to fetch Azure locations", locations |-> NilMap,
              read |-> cached.err,
              client |-> TRUE, api |-> TRUE, saved |-> "none", file |-> file]
        ELSE [err |-> IF save = "written" THEN "" ELSE "failed to write cache file",
              locations |-> IF save = "written" THEN MakeMap(remoteMap) ELSE NilMap,
              read |-> cached.err,
              client |-> TRUE, api |-> TRUE, saved |-> save,
              file |-> saveToCache(file, MakeMap(remoteMap), time, save)]

\* AzureLocationFetcher.Fetch on the cache file: what it returns, what it
\* called and the file it leaves
Fetch(file, time, remoteMap, live, save) ==
    LET cached == loadFromCache(file, time)
    IN  IF cached.err = "" /\ ~cached.locations.nil
        THEN [err |-> "", locations |-> cached.locations, read |-> cached.err,
              client |-> FALSE, api |-> FALSE, saved |-> "none", file |-> file]
        ELSE IF live = "client error"
        THEN [err |-> "failed to create Azure location client", locations |-> NilMap,
              read |-> cached.err,
              client |-> TRUE, api |-> FALSE, saved |-> "none", file |-> file]
        ELSE IF live = "api error"
        THEN [err |-> "failed to fetch Azure locations", locations |-> NilMap,
              read |-> cached.err,
              client |-> TRUE, api |-> TRUE, saved |-> "none", file |-> file]
        ELSE [err |-> "", locations |-> MakeMap(remoteMap), read |-> cached.err,
              client |-> TRUE, api |-> TRUE, saved |-> save,
              file |-> saveToCache(file, MakeMap(remoteMap), time, save)]

\* how the live fetch and the saving of its map may end together: nothing
\* is saved unless the map was fetched
FetchOutcomes ==
    {<<live, "none">> : live \in LiveOutcomes \ {"ok"}}
        \cup {<<"ok", save>> : save \in SaveOutcomes}

InitFetch ==
    /\ req = [set |-> FALSE]
    /\ nameResp = [done |-> FALSE]
    /\ validateResp = [done |-> FALSE]
    /\ seededRand = NilRand
    /\ hashHistory = <<>>
    /\ threads = <<>>
    /\ overlay = [set |-> FALSE]
    /\ files = [key \in CacheKeys |-> FileAbsent]
    /\ now = 0
    /\ remote \in RemoteMaps
    /\ fetchLog = <<>>
    /\ fetchers = <<>>
    /\ served = <<>>
    /\ provider = <<>>

\* one call of Fetch by a fetcher of the configuration, run to its end;
\* fetchLog keeps the latest two calls
FetchCall(config) ==
    /\ \E outcome \in FetchOutcomes :
          LET key == CacheKey(config)
              f == Fetch(files[key], now, remote, outcome[1], outcome[2])
          IN  /\ files' = [files EXCEPT ![key] = f.file]
              /\ fetchLog' =
                    (IF fetchLog = <<>> THEN <<>> ELSE <<fetchLog[Len(fetchLog)]>>) \o
                    <<[key |-> key, at |-> now, before |-> files[key], after |-> f.file,
                       remote |-> remote, read |-> f.read,
                       client |-> f.client, api |-> f.api, saved |-> f.saved,
                       err |-> f.err, locations |-> f.locations]>>
    /\ UNCHANGED <<req, nameResp, validateResp, seededRand, hashHistory, threads,
                   overlay, now, remote, fetchers, served, provider>>

\* time passes
Tick ==
    /\ now < MaxTime
    /\ now' = now + 1
    /\ UNCHANGED <<req, nameResp, validateResp, seededRand, hashHistory, threads,
                   overlay, files, remote, fetchLog, fetchers, served, provider>>

\* the locations of the subscription change
RemoteChanges ==
    /\ \E m \in RemoteMaps \ {remote} : remote' = m
    /\ UNCHANGED <<req, nameResp, validateResp, seededRand, hashHistory, threads,
                   overlay, files, now, fetchLog, fetchers, served, provider>>

NextFetch == (\E config \in AzureConfigs : FetchCall(config)) \/ Tick \/ RemoteChanges

SpecFetch == InitFetch /\ [][NextFetch]_vars

\* the cache read of the call found an entry, of the given age
FoundEntry(call) == call.before.kind = "entry"
EntryAge(call) == call.at - call.before.timestamp

\* C14: a Fetch whose cache read finds an entry not older than the TTL
\* returns exactly the map of the entry, which an earlier live fetch stored,
\* creates no client, calls no API and leaves the cache file as it is.
CacheHitReturnsStored ==
    \A i \in DOMAIN fetchLog :
        LET call == fetchLog[i]
        IN  (FoundEntry(call) /\ EntryAge(call) <= CacheTTL) =>
                /\ call.before.locations.object \in RemoteMaps
                /\ call.err = ""
                /\ call.locations = MakeMap(call.before.locations.object)
                /\ ~call.client /\ ~call.api
                /\ call.after = call.before

\* a live fetch stored a map, the locations of the subscription changed, and
\* a Fetch for the same key one TTL later returned the stored map
HitAfterRemoteChanged ==
    /\ Len(fetchLog) = 2
    /\ fetchLog[1].key = fetchLog[2].key
    /\ fetchLog[1].api /\ fetchLog[1].saved = "written"
    /\ fetchLog[2].before = fetchLog[1].after
    /\ fetchLog[2].at = fetchLog[1].at + CacheTTL
    /\ fetchLog[2].remote /= fetchLog[1].remote
    /\ ~fetchLog[2].api /\ fetchLog[2].err = ""
    /\ fetchLog[2].locations = MakeMap(fetchLog[1].remote)

\* C15: a Fetch whose cache read finds an entry older than the TTL takes the
\* read for a miss and fetches live; it never returns the map of the entry
\* as such: it returns the fetched map or the error of the fetch, and when
\* the fetched map is written the file holds it with the time of the call,
\* so that the next Fetch for the key within the TTL returns it.
ExpiredEntryRefetched ==
    /\ \A i \in DOMAIN fetchLog :
        LET call == fetchLog[i]
        IN  (FoundEntry(call) /\ EntryAge(call) > CacheTTL) =>
                /\ call.read = "cache expired"
                /\ call.client
                /\ call.err = "" =>
                      /\ call.api
                      /\ call.locations = MakeMap(call.remote)
                      /\ call.saved = "written" =>
                            call.after = MarshalCache(MakeMap(call.remote), call.at)
                /\ call.err /= "" => call.locations = NilMap /\ call.after = call.before
    /\ (/\ Len(fetchLog) = 2
        /\ fetchLog[1].key = fetchLog[2].key
        /\ FoundEntry(fetchLog[1]) /\ EntryAge(fetchLog[1]) > CacheTTL
        /\ fetchLog[1].err = "" /\ fetchLog[1].saved = "written"
        /\ fetchLog[2].at - fetchLog[1].at <= CacheTTL) =>
            /\ ~fetchLog[2].api
            /\ fetchLog[2].locations = fetchLog[1].locations

\* an expired entry was replaced by the map fetched live, and the next Fetch
\* for the key returned the fresh map, not the expired one
FreshMapAfterExpiry ==
    /\ Len(fetchLog) = 2
    /\ fetchLog[1].key = fetchLog[2].key
    /\ FoundEntry(fetchLog[1]) /\ EntryAge(fetchLog[1]) > CacheTTL
    /\ fetchLog[1].read = "cache expired"
    /\ fetchLog[1].api /\ fetchLog[1].saved = "written"
    /\ fetchLog[1].before.locations.object /= fetchLog[1].remote
    /\ fetchLog[1].after.timestamp = fetchLog[1].at
    /\ ~fetchLog[2].api
    /\ fetchLog[2].locations = MakeMap(fetchLog[1].remote)
    /\ fetchLog[2].locations /= MakeMap(fetchLog[1].before.locations.object)

\* the cache read of the call gave no map: no file, a file that does not
\* parse, or an entry older than the TTL
CacheMissed(call) ==
    \/ call.before.kind \in {"absent", "torn"}
    \/ FoundEntry(call) /\ EntryAge(call) > CacheTTL

\* C25: when the cache read gives no map and the live fetch fails (the
\* client is not created, or the API call fails), Fetch returns the error of
\* the fetch after that one attempt: no API call follows a failed client
\* creation, no map is returned, not the expired one either, the error is
\* never "cache expired", nothing is saved and the file stays as it was.
FailedFetchSurfacedAtOnce ==
    \A i \in DOMAIN fetchLog :
        LET call == fetchLog[i]
        IN  /\ (CacheMissed(call) /\ call.err /= "") =>
                /\ call.read /= ""
                /\ call.err \in {"failed to create Azure location client",
                                 "failed to fetch Azure locations"}
                /\ call.err /= call.read
                /\ call.client
                /\ call.api <=> call.err = "failed to fetch Azure locations"
                /\ call.locations = NilMap
                /\ call.saved = "none"
                /\ call.after = call.before
            /\ (CacheMissed(call) /\ call.err = "") => call.api
            /\ call.err /= "cache expired"

\* an entry older than the TTL and an API call that fails: the error of the
\* fetch, no map, and the expired entry still in the file
ExpiredEntryAndApiFailure ==
    \E i \in DOMAIN fetchLog :
        /\ FoundEntry(fetchLog[i]) /\ EntryAge(fetchLog[i]) > CacheTTL
        /\ fetchLog[i].read = "cache expired"
        /\ fetchLog[i].api
        /\ fetchLog[i].err = "failed to fetch Azure locations"
        /\ fetchLog[i].locations = NilMap
        /\ fetchLog[i].after = fetchLog[i].before

\* the live fetch of the call gave a map and the saving of it failed
SaveFailed(call) == call.saved \in {"failed", "failed torn"}

\* C26: when the live fetch succeeds and the writing of the cache entry
\* fails, Fetch returns the fetched map and no error; the next Fetch for the
\* key finds no entry holding that map, so it creates a client and fetches
\* live again.
WriteFailureIsNotFatal ==
    /\ \A i \in DOMAIN fetchLog :
        SaveFailed(fetchLog[i]) =>
            /\ fetchLog[i].api
            /\ fetchLog[i].err = ""
            /\ fetchLog[i].locations = MakeMap(fetchLog[i].remote)
            /\ fetchLog[i].after /= MarshalCache(fetchLog[i].locations, fetchLog[i].at)
    /\ (/\ Len(fetchLog) = 2
        /\ fetchLog[1].key = fetchLog[2].key
        /\ SaveFailed(fetchLog[1])) =>
            /\ fetchLog[2].before = fetchLog[1].after
            /\ fetchLog[2].read /= ""
            /\ fetchLog[2].client
            /\ fetchLog[2].err = "" =>
                    fetchLog[2].api /\ fetchLog[2].locations = MakeMap(fetchLog[2].remote)

\* a write that failed after truncating the file, and the next Fetch for the
\* key: both return the map fetched live, the second after calling the API
\* again
RefetchAfterFailedWrite ==
    /\ Len(fetchLog) = 2
    /\ fetchLog[1].key = fetchLog[2].key
    /\ fetchLog[1].saved = "failed torn"
    /\ fetchLog[1].err = ""
    /\ fetchLog[1].locations = MakeMap(fetchLog[1].remote)
    /\ fetchLog[2].at = fetchLog[1].at
    /\ fetchLog[2].read = "unexpected end of JSON input"
    /\ fetchLog[2].api
    /\ fetchLog[2].locations = fetchLog[1].locations

----------------------------------------------------------------------------
(* Fetch calls of several fetchers running side by side, as when two data  *)
(* sources of one plan are read in parallel.  Nothing locks the cache      *)
(* file: the calls interleave at the file operations of loadFromCache and  *)
(* saveToCache and at the call of the API.                                 *)

FetcherIds == {"a", "b"}

\* a cache file path that is the same for every fetcher
cacheFilePathShared(config) == <<"azure-locations", "azure", "sub-1", "public">>

\* AzureLocationFetcher.cacheFilePath: azure-locations-<CacheKey>.json in the
\* cache directory
cacheFilePath(config) == <<"azure-locations">> \o CacheKey(config)

CachePaths == {cacheFilePath(config) : config \in AzureConfigs}

\* the maps GetLocationsMap may return for the subscription of the
\* configuration, as the locations of the subscription change
ApiMaps(config) ==
    IF config.SubscriptionId = "sub-1" THEN RemoteMaps
    ELSE {[k \in {"northeurope"} |-> "ne"]}

\* a fetcher that has not called Fetch
IdleFetcher ==
    [pc |-> "idle", config |-> <<>>, read |-> "", locationsMap |-> NilMap,
     timestamp |-> 0, api |-> FALSE, err |-> "", locations |-> NilMap,
     accessed |-> {}]

InitRace ==
    /\ req = [set |-> FALSE]
    /\ nameResp = [done |-> FALSE]
    /\ validateResp = [done |-> FALSE]
    /\ seededRand = NilRand
    /\ hashHistory = <<>>
    /\ threads = <<>>
    /\ overlay = [set |-> FALSE]
    /\ files = [path \in CachePaths |-> FileAbsent]
    /\ now = 0
    /\ remote = <<>>
    /\ fetchLog = <<>>
    /\ fetchers = [t \in FetcherIds |-> IdleFetcher]
    /\ served = [key \in CacheKeys |-> {}]
    /\ provider = <<>>

raceUnchanged == <<req, nameResp, validateResp, seededRand, hashHistory, threads,
                   overlay, remote, fetchLog, provider>>

\* Fetch is called on a fetcher of the configuration
StartFetch(t, config) ==
    /\ fetchers[t].pc = "idle"
    /\ fetchers' = [fetchers EXCEPT ![t] = [@ EXCEPT !.pc = "loadFromCache",
                                                      !.config = config]]
    /\ UNCHANGED <<raceUnchanged, files, now, served>>

\* loadFromCache: os.ReadFile of the file as it is at this moment,
\* json.Unmarshal and the check of the age; Fetch returns on a hit
LoadStep(t) ==
    /\ fetchers[t].pc = "loadFromCache"
    /\ LET path == cacheFilePath(fetchers[t].config)
           cached == loadFromCache(files[path], now)
           hit == cached.err = "" /\ ~cached.locations.nil
       IN  fetchers' = [fetchers EXCEPT ![t] =
                [@ EXCEPT !.pc = IF hit THEN "done" ELSE "GetLocationsMap",
                          !.read = cached.err,
                          !.locations = IF hit THEN cached.locations ELSE NilMap,
                          !.accessed = @ \cup {path}]]
    /\ UNCHANGED <<raceUnchanged, files, now, served>>

\* azure.NewLocationClient and client.GetLocationsMap: Fetch returns the
\* error of either, or goes on with the map
LiveStep(t) ==
    /\ fetchers[t].pc = "GetLocationsMap"
    /\ \E live \in LiveOutcomes :
          IF live = "ok"
          THEN \E m \in ApiMaps(fetchers[t].config) :
                  /\ fetchers' = [fetchers EXCEPT ![t] =
                        [@ EXCEPT !.pc = "saveToCache", !.api = TRUE,
                                  !.locationsMap = MakeMap(m)]]
                  /\ served' = [served EXCEPT ![CacheKey(fetchers[t].config)] = @ \cup {m}]
          ELSE /\ fetchers' = [fetchers EXCEPT ![t] =
                        [@ EXCEPT !.pc = "done", !.api = (live = "api error"),
                                  !.err = IF live = "client error"
                                          THEN "failed to create Azure location client"
                                          ELSE "failed to fetch Azure locations"]]
               /\ served' = served
    /\ UNCHANGED <<raceUnchanged, files, now>>

\* saveToCache up to the opening of the file by os.WriteFile, which empties
\* it; when os.MkdirAll or the opening fails Fetch logs it and returns the map
OpenStep(t) ==
    /\ fetchers[t].pc = "saveToCache"
    /\ \E opened \in BOOLEAN :
          LET path == cacheFilePath(fetchers[t].config)
          IN  IF opened
              THEN /\ files' = [files EXCEPT ![path] = FileTorn]
                   /\ fetchers' = [fetchers EXCEPT ![t] =
                        [@ EXCEPT !.pc = "WriteFile", !.timestamp = now,
                                  !.accessed = @ \cup {path}]]
              ELSE /\ files' = files
                   /\ fetchers' = [fetchers EXCEPT ![t] =
                        [@ EXCEPT !.pc = "done", !.locations = fetchers[t].locationsMap]]
    /\ UNCHANGED <<raceUnchanged, now, served>>

\* the write of os.WriteFile, from the start of the file: it leaves the
\* entry, or a file that does not parse: the write was cut short, or the
\* bytes of a longer entry another fetcher wrote meanwhile follow it.  Fetch
\* returns the map either way.
WriteStep(t) ==
    /\ fetchers[t].pc = "WriteFile"
    /\ \E outcome \in {"written", "failed torn"} :
          LET path == cacheFilePath(fetchers[t].config)
          IN  files' = [files EXCEPT ![path] =
                  saveToCache(@, fetchers[t].locationsMap, fetchers[t].timestamp, outcome)]
    /\ fetchers' = [fetchers EXCEPT ![t] =
            [@ EXCEPT !.pc = "done", !.locations = fetchers[t].locationsMap]]
    /\ UNCHANGED <<raceUnchanged, now, served>>

\* time passes while the calls run
RaceTick ==
    /\ now < MaxTime
    /\ now' = now + 1
    /\ UNCHANGED <<raceUnchanged, files, fetchers, served, provider>>

NextRace ==
    \/ \E t \in FetcherIds, config \in AzureConfigs : StartFetch(t, config)
    \/ \E t \in FetcherIds : LoadStep(t)
    \/ \E t \in FetcherIds : LiveStep(t)
    \/ \E t \in FetcherIds : OpenStep(t)
    \/ \E t \in FetcherIds : WriteStep(t)
    \/ RaceTick

SpecRace == InitRace /\ [][NextRace]_vars

\* C27: with the reads and writes of the cache file interleaved and no
\* lock, every map a Fetch returns is a whole map the API returned for the
\* cache key of its fetcher (read from the cache, possibly stale, or fetched
\* live, possibly a second time); a file that does not parse is a miss; and
\* a Fetch reads and writes no file but that of its own cache key, so the
\* file of a key holds maps of that key alone.
RacingFetchesReturnServedMaps ==
    /\ \A t \in FetcherIds :
        LET f == fetchers[t]
        IN  f.pc /= "idle" =>
                /\ f.accessed \subseteq {<<"azure-locations">> \o CacheKey(f.config)}
                /\ (f.pc = "done" /\ f.err = "") =>
                        /\ ~f.locations.nil
                        /\ f.locations.m \in served[CacheKey(f.config)]
                /\ (f.pc = "done" /\ f.err /= "") => f.locations = NilMap
    /\ \A config \in AzureConfigs, path \in DOMAIN files :
        (path = <<"azure-locations">> \o CacheKey(config) /\ files[path].kind = "entry") =>
            /\ ~files[path].locations.null
            /\ files[path].locations.object \in served[CacheKey(config)]

\* two fetchers of one cache key: the second read the file while the first
\* was between emptying and writing it, took that for a miss and fetched live
\* too; a fetcher of the other key ran nowhere near
RedundantFetchOnTornRead ==
    /\ fetchers["a"].pc = "done" /\ fetchers["b"].pc = "done"
    /\ fetchers["a"].config = fetchers["b"].config
    /\ fetchers["a"].read = "no such file"
    /\ fetchers["b"].read = "unexpected end of JSON input"
    /\ fetchers["a"].api /\ fetchers["b"].api
    /\ fetchers["a"].err = "" /\ fetchers["b"].err = ""
    /\ fetchers["a"].locations /= fetchers["b"].locations
    /\ files[cacheFilePath(fetchers["a"].config)].kind = "entry"

----------------------------------------------------------------------------
(* locations_data_resource.go: LocationDataSource.Read with                *)
(* location_source = "azure": the map of the fetcher, then the aliases of   *)
(* the provider configuration over it.  The alias table belongs to the     *)
(* provider configuration and may differ from one read to the next.        *)

\* the configuration of the provider the data source reads with
ReadConfig == [SubscriptionId |-> "sub-1", Environment |-> "public"]

\* providerData.getLocationAliases: nil when location_aliases is null, else
\* the table
ReadAliasTables ==
    {NilMap,
     MakeMap([k \in {"eastus"} |-> "use"]),
     MakeMap([k \in {"eastus", "westeurope"} |-> IF k = "eastus" THEN "e" ELSE "weu"])}

\* a read that applies the aliases before the fetcher saves the map
ReadCachesAliased(file, time, remoteMap, aliases, live, save) ==
    LET f == Fetch(file, time, remoteMap, live, save)
        result == IF MapLen(aliases) > 0 THEN ApplyAliases(f.locations, aliases)
                  ELSE f.locations
    IN  [err |-> f.err, api |-> f.api, saved |-> f.saved,
         file |-> IF f.saved = "written" THEN MarshalCache(result, time) ELSE f.file,
         fetched |-> f.locations,
         result |-> IF f.err = "" THEN result ELSE NilMap]

\* LocationDataSource.Read, case "azure": fetcher.Fetch, then ApplyAliases
\* when there are aliases; an error of Fetch ends the read
Read(file, time, remoteMap, aliases, live, save) ==
    LET f == Fetch(file, time, remoteMap, live, save)
    IN  [err |-> f.err, api |-> f.api, saved |-> f.saved, file |-> f.file,
         fetched |-> f.locations,
         result |-> IF f.err /= "" THEN NilMap
                    ELSE IF MapLen(aliases) > 0 THEN ApplyAliases(f.locations, aliases)
                    ELSE f.locations]

InitRead ==
    /\ req = [set |-> FALSE]
    /\ nameResp = [done |-> FALSE]
    /\ validateResp = [done |-> FALSE]
    /\ seededRand = NilRand
    /\ hashHistory = <<>>
    /\ threads = <<>>
    /\ \E aliases \in ReadAliasTables :
          overlay = [set |-> TRUE, locations |-> NilMap, aliases |-> aliases,
                     applied |-> <<>>]
    /\ files = [key \in {CacheKey(ReadConfig)} |-> FileAbsent]
    /\ now = 0
    /\ remote \in RemoteMaps
    /\ fetchLog = <<>>
    /\ fetchers = <<>>
    /\ served = <<>>
    /\ provider = <<>>

\* one Read of the data source, run to its end; fetchLog keeps the latest
\* two reads
ReadCall ==
    /\ \E outcome \in FetchOutcomes :
          LET key == CacheKey(ReadConfig)
              r == Read(files[key], now, remote, overlay.aliases, outcome[1], outcome[2])
          IN  /\ files' = [files EXCEPT ![key] = r.file]
              /\ overlay' = [overlay EXCEPT !.locations = r.fetched,
                                            !.applied = <<r.result>>]
              /\ fetchLog' =
                    (IF fetchLog = <<>> THEN <<>> ELSE <<fetchLog[Len(fetchLog)]>>) \o
                    <<[at |-> now, before |-> files[key], after |-> r.file,
                       remote |-> remote, aliases |-> overlay.aliases,
                       api |-> r.api, saved |-> r.saved, err |-> r.err,
                       fetched |-> r.fetched, result |-> r.result]>>
    /\ UNCHANGED <<req, nameResp, validateResp, seededRand, hashHistory, threads,
                   now, remote, fetchers, served, provider>>

\* location_aliases of the provider configuration is set, changed or removed
ChangeAliases ==
    /\ \E aliases \in ReadAliasTables \ {overlay.aliases} :
          overlay' = [overlay EXCEPT !.aliases = aliases]
    /\ UNCHANGED <<req, nameResp, validateResp, seededRand, hashHistory, threads,
                   files, now, remote, fetchLog, fetchers, served, provider>>

NextRead == ReadCall \/ ChangeAliases \/ Tick \/ RemoteChanges

SpecRead == InitRead /\ [][NextRead]_vars

\* the map with the aliases over it, key by key
Aliased(locations, aliases) ==
    [key \in DOMAIN locations |->
        IF key \in DOMAIN aliases.m THEN aliases.m[key] ELSE locations[key]]

\* C29: the cache holds the map as fetched, never a value of an alias; every
\* read, on a cache hit and on a live fetch alike, lays the alias table of
\* the moment over the map, so a table added, changed or removed shows in
\* the next read while the cache entry is still fresh.
CacheHoldsRawMapAliasesOnRead ==
    /\ \A key \in DOMAIN files :
        files[key].kind = "entry" => files[key].locations.object \in RemoteMaps
    /\ \A i \in DOMAIN fetchLog :
        LET call == fetchLog[i]
            raw == IF call.api THEN call.remote ELSE call.before.locations.object
        IN  call.err = "" =>
                /\ call.fetched = MakeMap(raw)
                /\ call.result.m = Aliased(raw, call.aliases)
                /\ call.saved = "written" =>
                        call.after = MarshalCache(MakeMap(call.remote), call.at)
    /\ (/\ Len(fetchLog) = 2
        /\ fetchLog[1].err = "" /\ fetchLog[1].saved = "written"
        /\ fetchLog[2].at - fetchLog[1].at <= CacheTTL) =>
            /\ ~fetchLog[2].api
            /\ fetchLog[2].result.m = Aliased(fetchLog[1].remote, fetchLog[2].aliases)

\* a read that fetched live under one alias table, then a read that hit the
\* cache under another: the second shows the new alias, the file the raw map
AliasChangedBetweenReads ==
    /\ Len(fetchLog) = 2
    /\ fetchLog[1].api /\ fetchLog[1].saved = "written"
    /\ fetchLog[1].aliases = MakeMap([k \in {"eastus"} |-> "use"])
    /\ fetchLog[1].result.m["eastus"] = "use"
    /\ ~fetchLog[2].api /\ fetchLog[2].err = ""
    /\ fetchLog[2].at = fetchLog[1].at
    /\ fetchLog[2].aliases /= fetchLog[1].aliases
    /\ MapLen(fetchLog[2].aliases) > 0
    /\ fetchLog[2].result.m["eastus"] = "e"
    /\ fetchLog[2].after.locations.object["eastus"] = "eus"

----------------------------------------------------------------------------
(* provider.go: StandesamtProvider.Configure.  The framework calls it with *)
(* the provider block of the configuration; the environment variables are  *)
(* read where the code reads them.                                         *)

\* standesamtLibRef
DefaultLibRef == "2025.04"

\* the provider block as req.Config.Get decodes it: convention, the ref of
\* schema_reference, location_source and the subscription_id of the azure
\* block, each "null" when not given; or a block that does not decode
ConfigureRequests ==
    {[decodes |-> FALSE, ref |-> "null", location_source |-> "null", azure |-> "null"]}
    \cup
    {[decodes |-> TRUE, ref |-> ref, location_source |-> source[1], azure |-> source[2]] :
        ref \in {"null", "2026.01"},
        source \in {<<"null", "null">>, <<"azure", "null">>, <<"azure", "">>,
                    <<"azure", "sub-1">>}}

\* SA_CONVENTION and ARM_SUBSCRIPTION_ID in the environment of the process
Environments ==
    {[SA_CONVENTION |-> "", ARM_SUBSCRIPTION_ID |-> ""],
     [SA_CONVENTION |-> "bogus", ARM_SUBSCRIPTION_ID |-> ""],
     [SA_CONVENTION |-> "passthrough", ARM_SUBSCRIPTION_ID |-> "sub-2"]}

\* p.config == nil
NilConfig == [nil |-> TRUE]

\* what a call of Configure leaves: p.config, resp.DataSourceData, the error
\* of resp.Diagnostics, and what the call touched on the way
ConfigureResult(config, data, err, readRequest, readEnvironment, downloaded) ==
    [config |-> config, data |-> data, err |-> err, readRequest |-> readRequest,
     readEnvironment |-> readEnvironment, downloaded |-> downloaded]

\* configProviderFromEnvironment, configProviderDefaults, Download and the
\* Azure part of Configure, for a block that decoded
ConfigureFromScratch(request, env, downloadFails) ==
    LET badConvention == env.SA_CONVENTION \notin {"", "default", "passthrough"}
        convention == IF env.SA_CONVENTION /= "" THEN env.SA_CONVENTION ELSE "default"
        azure == IF request.azure = "null" /\ env.ARM_SUBSCRIPTION_ID /= ""
                 THEN env.ARM_SUBSCRIPTION_ID ELSE request.azure
        ref == IF request.ref = "null" THEN DefaultLibRef ELSE request.ref
        source == IF request.location_source = "null" THEN "schema"
                  ELSE request.location_source
        made == [nil |-> FALSE, SourceRef |-> <<"fs", ref>>,
                 ProviderData |-> [Convention |-> convention, LocationSource |-> source,
                                   SchemaReference |-> ref, AzureConfig |-> azure],
                 AzureConfig |-> IF source = "azure"
                                 THEN [SubscriptionId |-> azure, Environment |-> "public"]
                                 ELSE <<>>]
    IN  IF badConvention
        THEN ConfigureResult(NilConfig, NilConfig, "Invalid Environment Variable",
                             TRUE, TRUE, FALSE)
        ELSE IF downloadFails
        THEN ConfigureResult(NilConfig, NilConfig, "source_reference", TRUE, TRUE, TRUE)
        ELSE IF source = "azure" /\ azure = "null"
        THEN ConfigureResult(NilConfig, NilConfig, "Missing Azure Configuration",
                             TRUE, TRUE, TRUE)
        ELSE IF source = "azure" /\ azure = ""
        THEN ConfigureResult(NilConfig, NilConfig, "Azure Configuration Error",
                             TRUE, TRUE, TRUE)
        ELSE ConfigureResult(made, made, "", TRUE, TRUE, TRUE)

\* a Configure that configures anew on every call
ConfigureAnew(config, request, env, downloadFails) ==
    IF ~request.decodes
    THEN ConfigureResult(config, NilConfig, "config", TRUE, FALSE, FALSE)
    ELSE LET r == ConfigureFromScratch(request, env, downloadFails)
         IN  IF r.err = "" THEN r ELSE [r EXCEPT !.config = config]

\* StandesamtProvider.Configure on p.config as the call finds it
Configure(config, request, env, downloadFails) ==
    IF ~config.nil
    THEN ConfigureResult(config, config, "", FALSE, FALSE, FALSE)
    ELSE IF ~request.decodes
    THEN ConfigureResult(NilConfig, NilConfig, "config", TRUE, FALSE, FALSE)
    ELSE ConfigureFromScratch(request, env, downloadFails)

\* New: the provider instance, not configured
InitConfigure ==
    /\ req = [set |-> FALSE]
    /\ nameResp = [done |-> FALSE]
    /\ validateResp = [done |-> FALSE]
    /\ seededRand = NilRand
    /\ hashHistory = <<>>
    /\ threads = <<>>
    /\ overlay = [set |-> FALSE]
    /\ files = <<>>
    /\ now = 0
    /\ remote = <<>>
    /\ fetchLog = <<>>
    /\ fetchers = <<>>
    /\ served = <<>>
    /\ provider = [config |-> NilConfig, calls |-> <<>>]

\* one call of Configure on the instance, run to its end; provider.calls
\* keeps the latest two calls
ConfigureCall ==
    /\ \E request \in ConfigureRequests, env \in Environments, downloadFails \in BOOLEAN :
          LET r == Configure(provider.config, request, env, downloadFails)
          IN  provider' =
                [config |-> r.config,
                 calls |->
                    (IF provider.calls = <<>> THEN <<>>
                     ELSE <<provider.calls[Len(provider.calls)]>>) \o
                    <<[before |-> provider.config, request |-> request, env |-> env,
                       after |-> r.config, data |-> r.data, err |-> r.err,
                       readRequest |-> r.readRequest,
                       readEnvironment |-> r.readEnvironment,
                       downloaded |-> r.downloaded]>>]
    /\ UNCHANGED <<req, nameResp, validateResp, seededRand, hashHistory, threads,
                   overlay, files, now, remote, fetchLog, fetchers, served>>

NextConfigure == ConfigureCall

SpecConfigure == InitConfigure /\ [][NextConfigure]_vars

\* C30: the configuration of a provider instance is set at most once: a
\* Configure call that finds a stored ProviderConfig hands out that very one
\* and reads neither the request nor the environment nor downloads the
\* schema; a call that fails stores nothing and hands out nothing, so the
\* call after it starts from the request again.
ConfiguredAtMostOnce ==
    /\ \A i \in DOMAIN provider.calls :
        LET call == provider.calls[i]
        IN  /\ ~call.before.nil =>
                /\ call.after = call.before
                /\ call.data = call.before
                /\ call.err = ""
                /\ ~call.readRequest /\ ~call.readEnvironment /\ ~call.downloaded
            /\ call.err /= "" =>
                /\ call.before.nil /\ call.after.nil /\ call.data.nil
            /\ (call.before.nil /\ call.err = "") =>
                /\ ~call.after.nil
                /\ call.data = call.after
                /\ call.readRequest /\ call.readEnvironment /\ call.downloaded
    /\ Len(provider.calls) = 2 =>
        /\ provider.calls[2].before = provider.calls[1].after
        /\ provider.calls[1].err /= "" => provider.calls[2].readRequest
        /\ provider.calls[1].err = "" =>
                provider.calls[2].data = provider.calls[1].data
    /\ provider.config =
            IF provider.calls = <<>> THEN NilConfig
            ELSE provider.calls[Len(provider.calls)].after

\* a call configured the instance from one provider block, and a later call
\* with another block, another environment and a failing download got the
\* stored configuration of the first
SecondCallGetsStoredConfig ==
    /\ Len(provider.calls) = 2
    /\ provider.calls[1].before.nil
    /\ provider.calls[1].err = ""
    /\ provider.calls[1].request.ref = "null"
    /\ provider.calls[2].request.ref = "2026.01"
    /\ provider.calls[2].env /= provider.calls[1].env
    /\ provider.calls[2].env.SA_CONVENTION = "bogus"
    /\ provider.calls[2].err = ""
    /\ provider.calls[2].data = provider.calls[1].data
    /\ provider.calls[2].data.SourceRef = <<"fs", DefaultLibRef>>
    /\ provider.config = provider.calls[1].data

====
